---- MODULE Spec2Model ----
(***************************************************************************)
(* nssh: resolve a SIM by name (connect) or by picking it from a list      *)
(* (interactive), find or create a Napter port mapping for it, and bridge  *)
(* an SSH session through the mapping.                                     *)
(*                                                                         *)
(* The model follows the SIM-based sources: cmd/connect.go (connect),      *)
(* unnamed/part_001 (interactive, root) and the second half of             *)
(* unnamed/part_004 (SoracomClient).  Calls that leave the process (the    *)
(* directory API, checkip, ssh, the terminal) are steps whose outcome the  *)
(* environment chooses.                                                    *)
(***************************************************************************)
EXTENDS Integers, Sequences, FiniteSets, TLC

VARIABLES
    cmdline,        \* the global flags given on the command line
    coverageType,   \* --coverage-type flag variable
    profileName,    \* --profile-name flag variable
    profiles,       \* the profile files: name -> [exists, coverageType]
    client,         \* the directory client (<<>> = nil)
    cmd,            \* "connect" | "interactive": the sub-command that runs
    arg,            \* connect: the [<user>@]<name> argument
    login,          \* login name handed to Connect
    name,           \* connect: the device name searched for
    identity,       \* --identity flag
    port,           \* --port flag
    duration,       \* --duration flag (minutes)
    pc,             \* position of the main goroutine
    onlineSIMs,     \* connect: result of FindOnlineSIMsByName
    sims,           \* interactive: result accumulated by FindOnlineSIMs
    lastEvaluatedKey, \* interactive: continuation token of the previous page
    pages,          \* interactive: the pages fetched: [key, sims, nextKey]
    items,          \* interactive: items offered by the picker
    cursor,         \* interactive: index of the selected item (1-based)
    filtering,      \* interactive: the list's filter input is being typed
    choice,         \* interactive: model.choice (<<>> = nil, <<sim>> otherwise)
    sim,            \* the resolved device (<<>> until resolved)
    listErr,        \* err returned by FindAvailablePortMappingsForSIM
    portMappings,   \* the mappings FindPortMappingsForSIM returned
    currentPortMappings, \* candidates: listed mappings with the requested port
    ip,             \* what GetIP returned: [ip, err] (<<>> = not called)
    available,      \* result of FindAvailablePortMappingsForSIM
    portMapping,    \* mapping handed to Connect (<<>> = none yet)
    ops,            \* requests that left the process, in order
    createReqs,     \* bodies of the mapping-create requests sent
    diag,           \* diagnostics printed by the command layer, in order
    exitCode,       \* process exit status (-1 while running)
    termRaw,        \* the local terminal is in raw mode
    rawCount,       \* number of successful terminal.MakeRaw calls
    restoreCount,   \* number of terminal.Restore calls
    closeCount,     \* number of session.Close calls
    teardown,       \* deferred calls run by Connect, in order
    sessionOpen,    \* the command channel is open
    started,        \* session.Shell succeeded
    remote,         \* remote shell: "none" | "running" | "exit0" | "exitFail"
    termSize,       \* current size <<w, h>> of the local terminal
    wh,             \* Connect's variables w, h
    ptyDims,        \* <<h, w>> passed to RequestPty (<<>> = not requested)
    copy,           \* the three dup goroutines: "idle" | "running" | "eof" | "failed"
    sigRegistered,  \* signal.Notify(ch, SIGWINCH) has run
    sigch,          \* number of signals buffered in ch (capacity 1)
    hpc,            \* position of the resize goroutine
    nResizes,       \* resizes of the local terminal since the initial size query
    nNotified,      \* SIGWINCH raised while the handler was registered
    nDelivered,     \* signals the goroutine has received from ch
    lastQuery,      \* what the terminal answered to the goroutine's last size query
    sent,           \* <<h, w>> of the WindowChange requests sent, in order
    calls,          \* the calls Connect has made, in order: [step, ok]
    args,           \* list: the positional arguments
    fetched,        \* list: what was fetched per loop iteration: [sim, mappings]
    out,            \* list: the lines printed: [kind, sim, n]
    errs,           \* errors the directory calls of the name search and the
                    \* Mapping Broker returned, in order: [call, msg]
    shown,          \* the errors printed with fmt.Println(err), in order
    result          \* value returned by Connect: "none" | "nil" | "err"

vars == <<cmdline, coverageType, profileName, profiles, client, cmd, arg, login, name, identity, port, duration, pc, onlineSIMs, sims,
          lastEvaluatedKey, pages, items, cursor, filtering, choice, sim, listErr,
          portMappings, currentPortMappings, ip, available, portMapping, ops, createReqs, diag,
          exitCode, termRaw, rawCount, restoreCount, closeCount, teardown,
          sessionOpen, started, remote, termSize, wh, ptyDims, copy,
          sigRegistered, sigch, hpc, nResizes, nNotified, nDelivered, lastQuery,
          sent, calls, args, fetched, out, errs, shown, result>>

----------------------------------------------------------------------------
(* Bounds of the model *)

MaxSims == 2        \* devices in one directory response
MaxMappings == 2    \* mappings in one listing response
MaxPages == 2       \* pages of the all-online listing
MaxResizes == 2     \* terminal resizes during one run
MaxListed == 3      \* devices the directory lists to the picker
MaxArgLen == 4      \* characters of a command-line argument
MaxArgs == 2        \* positional arguments given to list
IPBits == 2         \* width of a modelled IP address

(* Program constants *)

DefaultPort == 22       \* --port default
DefaultDuration == 60   \* --duration default, minutes
DefaultCols == 80
DefaultRows == 24
StatusBadRequest == 400

----------------------------------------------------------------------------
(* Sequences *)

SeqsUpTo(S, n) == UNION {[1..k -> S] : k \in 0..n}

Range(s) == {s[i] : i \in 1..Len(s)}

RECURSIVE Pow2(_)
Pow2(n) == IF n <= 0 THEN 1 ELSE 2 * Pow2(n - 1)

----------------------------------------------------------------------------
(* Address Resolver: cmd/connect.go parseArg.  A string is a sequence of  *)
(* one-character strings.                                                  *)

DefaultLogin == <<"p", "i">>

Contains(s, c) == \E i \in 1..Len(s) : s[i] = c

\* index of the first occurrence of c in s (s contains c)
IndexOf(s, c) == CHOOSE i \in 1..Len(s) : s[i] = c /\ \A j \in 1..(i - 1) : s[j] # c

\* SplitN2 cutting at the last occurrence of c
SplitN2_Last(s, c) ==
    LET i == CHOOSE k \in 1..Len(s) : s[k] = c /\ \A j \in (k + 1)..Len(s) : s[j] # c
    IN  <<SubSeq(s, 1, i - 1), SubSeq(s, i + 1, Len(s))>>

\* strings.SplitN(s, c, 2) for s containing c
SplitN2(s, c) ==
    LET i == IndexOf(s, c)
    IN  <<SubSeq(s, 1, i - 1), SubSeq(s, i + 1, Len(s))>>

parseArg(a) ==
    IF Contains(a, "@")
    THEN LET s == SplitN2(a, "@")
         IN  IF s[1] # <<>>
             THEN [login |-> s[1], name |-> s[2]]
             ELSE [login |-> DefaultLogin, name |-> s[2]]
    ELSE [login |-> DefaultLogin, name |-> a]

----------------------------------------------------------------------------
(* Devices.  subscription stands for SIM.ActiveSubscription().            *)

SIM(id, online, subscription, speedClass) ==
    [id |-> id, online |-> online, subscription |-> subscription,
     speedClass |-> speedClass]

SIMUniverse ==
    { SIM("sim1", TRUE, "plan01s", "s1.fast"),
      SIM("sim2", TRUE, "plan-D", "s1.slow"),
      SIM("sim3", FALSE, "plan01s", "s1.fast"),
      SIM("", TRUE, "plan01s", "s1.fast"),
      SIM("sim4", TRUE, "", "s1.fast"),
      SIM("sim5", TRUE, "plan01s", "") }

\* responses of GET query/sims?name=...: a transport/decode error or a list
SearchResponses ==
    {[err |-> TRUE, sims |-> <<>>]}
    \cup {[err |-> FALSE, sims |-> l] : l \in SeqsUpTo(SIMUniverse, MaxSims)}

IsOnline(s) == s.online

\* part_004 FindOnlineSIMsByName: FindSIMsByName, then keep the online ones
FindOnlineSIMsByName(resp) ==
    IF resp.err
    THEN [sims |-> <<>>, err |-> TRUE]
    ELSE [sims |-> SelectSeq(resp.sims, IsOnline), err |-> FALSE]

----------------------------------------------------------------------------
(* IP addresses are numbers of IPBits bits; NilIP is Go's nil net.IP.  A   *)
(* CIDR string "a/n" is the pair <<a, n>>; a pair whose prefix length is   *)
(* out of range stands for a string net.ParseCIDR rejects.                 *)

NilIP == 0 - 1

IPs == 0..(Pow2(IPBits) - 1)

Mask(a, bits) == (a \div Pow2(IPBits - bits)) * Pow2(IPBits - bits)

\* net.ParseCIDR
ParseCIDR(r) ==
    IF r[2] \in 0..IPBits /\ r[1] \in IPs
    THEN [err |-> FALSE, base |-> Mask(r[1], r[2]), bits |-> r[2]]
    ELSE [err |-> TRUE, base |-> 0, bits |-> 0]

\* (*net.IPNet).Contains: a nil IP has the wrong length and is not contained
NetContains(n, a) == a \in IPs /\ Mask(a, n.bits) = n.base

MatchAll == <<0, 0>>
UpperHalf == <<Pow2(IPBits - 1), 1>>
NoPrefix == <<1, 0 - 1>>
LongPrefix == <<0, IPBits + 1>>

\* A mapping as the model keeps it: Endpoint, Destination.Port, Source.IPRanges
PortMapping(endpoint, dport, ipRanges) ==
    [endpoint |-> endpoint, port |-> dport, ipRanges |-> ipRanges]

MappingKinds ==
    { [port |-> DefaultPort, ipRanges |-> <<NoPrefix, MatchAll>>],
      [port |-> DefaultPort, ipRanges |-> <<UpperHalf, LongPrefix>>],
      [port |-> DefaultPort, ipRanges |-> <<MatchAll, UpperHalf>>],
      [port |-> DefaultPort, ipRanges |-> <<>>],
      [port |-> 80, ipRanges |-> <<MatchAll>>] }

\* responses of GET port_mappings/sims/<id>; the i-th mapping has endpoint i
ListResponses ==
    {[err |-> TRUE, mappings |-> <<>>]}
    \cup {[err |-> FALSE,
           mappings |-> [i \in 1..Len(k) |->
                            PortMapping(i, k[i].port, k[i].ipRanges)]] :
          k \in SeqsUpTo(MappingKinds, MaxMappings)}

----------------------------------------------------------------------------
(* Outbound-IP prober: checkip_client.go GetIP.  A body is a sequence of   *)
(* tokens: white space, an address literal (a number) or other text.       *)

IsSpace(c) == c \in {" ", "\n"}

RECURSIVE TrimLeft(_)
TrimLeft(b) ==
    IF b # <<>> /\ IsSpace(Head(b)) THEN TrimLeft(Tail(b)) ELSE b

RECURSIVE TrimRight(_)
TrimRight(b) ==
    IF b # <<>> /\ IsSpace(b[Len(b)])
    THEN TrimRight(SubSeq(b, 1, Len(b) - 1))
    ELSE b

\* strings.TrimSpace
TrimSpace(b) == TrimRight(TrimLeft(b))

\* the address a literal denotes; NilIP for other text
Literal(c) ==
    CASE c = "0" -> 0 [] c = "1" -> 1 [] c = "2" -> 2 [] c = "3" -> 3
      [] c = "4" -> 4 [] c = "5" -> 5 [] c = "6" -> 6 [] c = "7" -> 7
      [] OTHER -> NilIP

\* net.ParseIP: nil unless the text is one address literal
ParseIP(b) ==
    IF Len(b) = 1 /\ Literal(b[1]) \in IPs THEN Literal(b[1]) ELSE NilIP

ProbeBodies ==
    { <<"1", "\n">>, <<" ", "2", "\n">>, <<"x", "\n">>, <<>> }

ProbeResponses ==
    {[transportErr |-> TRUE, status |-> 0, readErr |-> FALSE, body |-> <<>>]}
    \cup {[transportErr |-> FALSE, status |-> st, readErr |-> re, body |-> b] :
          st \in {200, 500}, re \in BOOLEAN, b \in ProbeBodies}

GetIP(resp) ==
    IF resp.transportErr THEN [ip |-> NilIP, err |-> TRUE]
    ELSE IF resp.status >= StatusBadRequest THEN [ip |-> NilIP, err |-> TRUE]
    ELSE IF resp.readErr THEN [ip |-> NilIP, err |-> TRUE]
    ELSE [ip |-> ParseIP(TrimSpace(resp.body)), err |-> FALSE]

----------------------------------------------------------------------------
(* Mapping Broker: the pure part of FindAvailablePortMappingsForSIM        *)

\* Candidates keeping every listed mapping, whatever its port
Candidates_AnyPort(pms, p) == pms

\* part_004:865-869: the listed mappings with the requested destination port
RECURSIVE Candidates(_, _)
Candidates(pms, p) ==
    IF pms = <<>> THEN <<>>
    ELSE IF Head(pms).port = p
         THEN <<Head(pms)>> \o Candidates(Tail(pms), p)
         ELSE Candidates(Tail(pms), p)

\* RangeMatches giving up on the mapping at the first range that does not parse
RECURSIVE RangeMatches_StopAtInvalid(_, _, _)
RangeMatches_StopAtInvalid(pm, ranges, a) ==
    IF ranges = <<>> THEN <<>>
    ELSE LET n == ParseCIDR(Head(ranges))
         IN  IF n.err THEN <<>>
             ELSE (IF NetContains(n, a) THEN <<pm>> ELSE <<>>)
                  \o RangeMatches_StopAtInvalid(pm, Tail(ranges), a)

\* part_004:879-886: pm is appended once per range that parses and contains ip
RECURSIVE RangeMatches(_, _, _)
RangeMatches(pm, ranges, a) ==
    IF ranges = <<>> THEN <<>>
    ELSE LET n == ParseCIDR(Head(ranges))
         IN  (IF ~n.err /\ NetContains(n, a) THEN <<pm>> ELSE <<>>)
             \o RangeMatches(pm, Tail(ranges), a)

\* AllowedFrom collecting the mappings from the end of the list
RECURSIVE AllowedFrom_LastFirst(_, _)
AllowedFrom_LastFirst(pms, a) ==
    IF pms = <<>> THEN <<>>
    ELSE AllowedFrom_LastFirst(Tail(pms), a)
         \o RangeMatches(Head(pms), Head(pms).ipRanges, a)

\* part_004:878-887: mapping-then-range nested loop
RECURSIVE AllowedFrom(_, _)
AllowedFrom(pms, a) ==
    IF pms = <<>> THEN <<>>
    ELSE RangeMatches(Head(pms), Head(pms).ipRanges, a)
         \o AllowedFrom(Tail(pms), a)

\* FilterByProbe taking a failed probe as "do not filter"
FilterByProbe_Unfiltered(current, probe) ==
    IF probe.err THEN current ELSE AllowedFrom(current, probe.ip)

\* part_004:871-890: the probe's error is ignored and leaves the result empty
FilterByProbe(current, probe) ==
    IF probe.err THEN <<>> ELSE AllowedFrom(current, probe.ip)

----------------------------------------------------------------------------
(* Root command and client construction: unnamed/part_001:141-176,         *)
(* part_004:674-729, 1046-1075                                             *)

DefaultProfile == "nssh"

Japan == "https://api.soracom.io"
Global == "https://g.api.soracom.io"

\* strings.HasPrefix(s, c) for a one-character prefix
HasPrefix(s, c) == Len(s) > 0 /\ s[1] = c

\* part_004:1046-1054
getEndpoint(ct) ==
    IF HasPrefix(ct, "j") THEN [err |-> FALSE, endpoint |-> Japan]
    ELSE IF HasPrefix(ct, "g") THEN [err |-> FALSE, endpoint |-> Global]
    ELSE [err |-> TRUE, endpoint |-> ""]

\* part_004:680-682
Selector(flag, ct) == IF flag = <<>> THEN ct ELSE flag

\* part_004:674-694: the profile is read, the selector chosen, the endpoint
\* looked up (the request for a token follows in the action)
NewSoracomClient(flag, pname, files) ==
    IF ~files[pname].exists THEN [err |-> TRUE, endpoint |-> "", profile |-> pname]
    ELSE [err |-> getEndpoint(Selector(flag, files[pname].coverageType)).err,
          endpoint |-> getEndpoint(Selector(flag, files[pname].coverageType)).endpoint,
          profile |-> pname]

\* the client of the runs that start at the sub-command
ReadyClient == <<[endpoint |-> Japan, profile |-> DefaultProfile]>>

ReadyProfiles ==
    [n \in {DefaultProfile, "default"} |-> [exists |-> TRUE, coverageType |-> <<"j", "p">>]]

----------------------------------------------------------------------------
(* Command lines exercised *)

Invocations ==
    { [cmd |-> "connect", arg |-> <<"b", "@", "d">>, login |-> <<>>,
       identity |-> "", port |-> DefaultPort, duration |-> DefaultDuration],
      [cmd |-> "connect", arg |-> <<"d">>, login |-> <<>>,
       identity |-> "id_rsa", port |-> 80, duration |-> 1],
      [cmd |-> "interactive", arg |-> <<>>, login |-> DefaultLogin,
       identity |-> "id_rsa", port |-> DefaultPort, duration |-> 1] }

Dims == {<<100, 30>>, <<120, 40>>}

CopyTasks == {"stdin", "stdout", "stderr"}

Init ==
    /\ \E inv \in Invocations :
          /\ cmd = inv.cmd
          /\ arg = inv.arg
          /\ login = inv.login
          /\ name = <<>>
          /\ identity = inv.identity
          /\ port = inv.port
          /\ duration = inv.duration
    /\ pc = "start"
    /\ onlineSIMs = <<>>
    /\ sims = <<>>
    /\ lastEvaluatedKey = <<>>
    /\ pages = <<>>
    /\ items = <<>>
    /\ cursor = 0
    /\ filtering = FALSE
    /\ choice = <<>>
    /\ sim = <<>>
    /\ listErr = FALSE
    /\ portMappings = <<>>
    /\ currentPortMappings = <<>>
    /\ ip = <<>>
    /\ available = <<>>
    /\ portMapping = <<>>
    /\ ops = <<>>
    /\ createReqs = <<>>
    /\ diag = <<>>
    /\ exitCode = 0 - 1
    /\ termRaw = FALSE
    /\ rawCount = 0
    /\ restoreCount = 0
    /\ closeCount = 0
    /\ teardown = <<>>
    /\ sessionOpen = FALSE
    /\ started = FALSE
    /\ remote = "none"
    /\ termSize = <<DefaultCols, DefaultRows>>
    /\ wh = <<0, 0>>
    /\ ptyDims = <<>>
    /\ copy = [t \in CopyTasks |-> "idle"]
    /\ sigRegistered = FALSE
    /\ sigch = 0
    /\ hpc = "none"
    /\ nResizes = 0
    /\ nNotified = 0
    /\ nDelivered = 0
    /\ lastQuery = <<>>
    /\ sent = <<>>
    /\ calls = <<>>
    /\ args = <<>>
    /\ cmdline = [coverage |-> <<>>, profile |-> "none"]
    /\ coverageType = <<>>
    /\ profileName = DefaultProfile
    /\ profiles = ReadyProfiles
    /\ client = ReadyClient
    /\ fetched = <<>>
    /\ out = <<>>
    /\ errs = <<>>
    /\ shown = <<>>
    /\ result = "none"

\* the process has neither exited nor been killed
Alive == pc \notin {"exit", "killed"}

listVars == <<args, fetched, out>>
rootVars == <<cmdline, coverageType, profileName, profiles, client>>
cmdVars == <<rootVars, cmd, arg, identity, port, duration, listVars>>
errVars == <<errs, shown>>
flagVars == <<rootVars, cmd, arg, name, identity, port, duration, listVars, errVars>>
pickVars == <<sims, lastEvaluatedKey, pages, items, cursor, filtering, choice>>
brokerVars == <<listErr, portMappings, currentPortMappings, ip, available,
               portMapping, createReqs>>
termVars == <<termRaw, rawCount, restoreCount, closeCount, teardown>>
sessVars == <<sessionOpen, started, remote, ptyDims, result>>
bgVars == <<termSize, wh, copy, sigRegistered, sigch, hpc, nResizes, nNotified,
            nDelivered, lastQuery, sent>>

\* what the directory's HTTP endpoint can answer to a request
Answers ==
    {[transportErr |-> TRUE, status |-> 0]}
    \cup {[transportErr |-> FALSE, status |-> st] : st \in {200, 404, 500}}

\* part_004:1159-1175 doRequest: the error of the transport, or an error
\* made of the status line for a status of 400 and above
doRequest(a) ==
    IF a.transportErr THEN [err |-> TRUE, msg |-> <<"transport", 0>>]
    ELSE IF a.status >= StatusBadRequest
         THEN [err |-> TRUE, msg |-> <<"status", a.status>>]
         ELSE [err |-> FALSE, msg |-> <<>>]

\* the errors a directory call can return
ErrorMessages == {doRequest(a).msg : a \in {b \in Answers : doRequest(b).err}}

\* the error value a call returned
Err(call, msg) == [call |-> call, msg |-> msg]

\* a printed diagnostic: what and about whom
D(msg, who) == [msg |-> msg, who |-> who]

\* fmt.Println(...); os.Exit(1)
Fatal(msgs) ==
    /\ diag' = diag \o msgs
    /\ exitCode' = 1
    /\ pc' = "exit"

\* Run returns, RootCmd.Execute returns nil, main exits with run()'s 0
ExitOK ==
    /\ exitCode' = 0
    /\ pc' = "exit"
    /\ UNCHANGED diag

----------------------------------------------------------------------------
(* connect: cmd/connect.go:18-37 *)

\* Resolve without the check for several matches: the first one is taken
Resolve_FirstOfMany(r) ==
    IF r.err \/ Len(r.sims) = 0 THEN "none" ELSE "one"

\* connect.go:23-36: what the command does with the search result
Resolve(r) ==
    IF r.err \/ Len(r.sims) = 0 THEN "none"
    ELSE IF Len(r.sims) > 1 THEN "many"
    ELSE "one"

ConnectSearch ==
    /\ pc = "start"
    /\ cmd = "connect"
    /\ \E resp \in SearchResponses :
          LET r == FindOnlineSIMsByName(resp) IN
          /\ login' = parseArg(arg).login
          /\ name' = parseArg(arg).name
          /\ ops' = Append(ops, "search")
          /\ onlineSIMs' = r.sims
          /\ IF r.err
             THEN \E m \in ErrorMessages : errs' = Append(errs, Err("search", m))
             ELSE UNCHANGED errs
          /\ UNCHANGED shown
          /\ CASE Resolve(r) = "none" ->
                    /\ Fatal(<<D("failed to find online subscribers", "")>>)
                    /\ UNCHANGED sim
               [] Resolve(r) = "many" ->
                    /\ Fatal(<<D("multiple subscribers", "")>>
                             \o [i \in 1..Len(r.sims) |-> D("match", r.sims[i].id)])
                    /\ UNCHANGED sim
               [] OTHER ->
                    /\ sim' = <<r.sims[1]>>
                    /\ pc' = "list"
                    /\ UNCHANGED <<diag, exitCode>>
    /\ UNCHANGED <<cmdVars, calls, pickVars, brokerVars, termVars, sessVars, bgVars>>

----------------------------------------------------------------------------
(* interactive: unnamed/part_001:63-121 *)

OnlineUniverse == {s \in SIMUniverse : s.online}

\* a page of GET query/sims?...session_status=ONLINE asked with token key:
\* devices and the X-Soracom-Next-Key header (<<>> = absent); the token of
\* the page after key is key with one more "k"; a directory that is not
\* paged answers with everything in one page
PageResponses(room, key, paged) ==
    {[err |-> TRUE, sims |-> <<>>, nextKey |-> <<>>]}
    \cup {[err |-> FALSE, sims |-> l, nextKey |-> k] :
          l \in SeqsUpTo(OnlineUniverse, room),
          k \in IF paged /\ Len(key) + 1 < MaxPages
                THEN {<<>>, Append(key, "k")} ELSE {<<>>}}

\* part_001:72-76
IsComplete(s) == s.id # "" /\ s.subscription # "" /\ s.speedClass # ""

\* PickerItems asking for an identifier only
PickerItems_IdOnly(l) == SelectSeq(l, LAMBDA s : s.id # "")

PickerItems(l) == SelectSeq(l, IsComplete)

\* ListPage taking the first page for the whole listing
ListPage_FirstPageOnly(room, paged) ==
    /\ pc = "start"
    /\ cmd = "interactive"
    /\ \E resp \in PageResponses(room, lastEvaluatedKey, paged) :
          /\ ops' = Append(ops, "listOnline")
          /\ IF resp.err
             THEN /\ Fatal(<<D("error", "FindOnlineSIMs")>>)
                  /\ UNCHANGED <<sims, pages, items, cursor>>
             ELSE /\ sims' = sims \o resp.sims
                  /\ pages' = Append(pages, [key |-> lastEvaluatedKey,
                                             sims |-> resp.sims,
                                             nextKey |-> resp.nextKey])
                  /\ items' = PickerItems(sims')
                  /\ cursor' = IF items' = <<>> THEN 0 ELSE 1
                  /\ pc' = "picker"
                  /\ UNCHANGED <<diag, exitCode>>
    /\ UNCHANGED <<flagVars, calls, login, onlineSIMs, lastEvaluatedKey, filtering,
                   choice, sim, brokerVars, termVars, sessVars, bgVars>>

\* one iteration of the loop of FindOnlineSIMs (part_004:753-781), the
\* directory holding at most room more devices; after the last page Run
\* builds the picker's items and starts the program
ListPage(room, paged) ==
    /\ pc = "start"
    /\ cmd = "interactive"
    /\ \E resp \in PageResponses(room, lastEvaluatedKey, paged) :
          /\ ops' = Append(ops, "listOnline")
          /\ IF resp.err
             THEN /\ Fatal(<<D("error", "FindOnlineSIMs")>>)
                  /\ UNCHANGED <<sims, lastEvaluatedKey, pages, items, cursor>>
             ELSE /\ sims' = sims \o resp.sims
                  /\ pages' = Append(pages, [key |-> lastEvaluatedKey,
                                             sims |-> resp.sims,
                                             nextKey |-> resp.nextKey])
                  /\ IF resp.nextKey # <<>>
                     THEN /\ lastEvaluatedKey' = resp.nextKey
                          /\ UNCHANGED <<pc, items, cursor>>
                     ELSE /\ items' = PickerItems(sims')
                          /\ cursor' = IF items' = <<>> THEN 0 ELSE 1
                          /\ pc' = "picker"
                          /\ UNCHANGED lastEvaluatedKey
                  /\ UNCHANGED <<diag, exitCode>>
    /\ UNCHANGED <<flagVars, calls, login, onlineSIMs, filtering, choice, sim, brokerVars,
                   termVars, sessVars, bgVars>>

\* interactive against a directory that answers in one page
InteractiveListPage == ListPage(MaxSims - Len(sims), FALSE)

QuitKeys == {"q", "esc", "ctrl+c"}
ListKeys == {"down", "up", "/"}

\* AfterPicker going on with the selected item when nothing was chosen
AfterPicker_TakeSelected(c) ==
    IF c # <<>> \/ cursor \in 1..Len(items)
    THEN /\ sim' = IF c # <<>> THEN c ELSE <<items[cursor]>>
         /\ pc' = "list"
         /\ UNCHANGED <<diag, exitCode>>
    ELSE /\ ExitOK
         /\ UNCHANGED sim

\* part_001:97: the command goes on only with a choice
AfterPicker(c) ==
    IF c # <<>>
    THEN /\ sim' = c
         /\ pc' = "list"
         /\ UNCHANGED <<diag, exitCode>>
    ELSE /\ ExitOK
         /\ UNCHANGED sim

\* model.Update on a key (part_001:25-46), and what Run does once the
\* program has quit (part_001:91-97)
PickerPress(k) ==
    /\ pc = "picker"
    /\    CASE k \in QuitKeys ->
                 /\ AfterPicker(choice)
                 /\ UNCHANGED <<choice, cursor, filtering>>
            [] k = "enter" ->
                 /\ choice' = IF cursor \in 1..Len(items)
                              THEN <<items[cursor]>> ELSE choice
                 /\ AfterPicker(choice')
                 /\ UNCHANGED <<cursor, filtering>>
            [] OTHER ->
                 /\ cursor' = CASE filtering \/ items = <<>> -> cursor
                                [] k = "down" -> IF cursor < Len(items)
                                                 THEN cursor + 1 ELSE cursor
                                [] k = "up" -> IF cursor > 1
                                               THEN cursor - 1 ELSE cursor
                                [] OTHER -> cursor
                 /\ filtering' = (filtering \/ k = "/")
                 /\ UNCHANGED <<choice, sim, pc, diag, exitCode>>
    /\ UNCHANGED <<flagVars, calls, login, onlineSIMs, sims, lastEvaluatedKey, pages,
                   items, brokerVars, ops, termVars, sessVars, bgVars>>

PickerKey == \E k \in QuitKeys \cup {"enter"} \cup ListKeys : PickerPress(k)

\* part_001:91-95: p.Run() fails
PickerFail ==
    /\ pc = "picker"
    /\ Fatal(<<D("could not start program", "")>>)
    /\ UNCHANGED <<flagVars, calls, login, onlineSIMs, pickVars, sim, brokerVars, ops,
                   termVars, sessVars, bgVars>>

----------------------------------------------------------------------------
(* Mapping Broker: connect.go:39-53, part_001:98-112, part_004:856-930 *)

\* part_004:857-872: list the device's mappings, keep the candidates
BrokerList ==
    /\ pc = "list"
    /\ \E resp \in ListResponses :
          /\ ops' = Append(ops, "list")
          /\ IF resp.err
             THEN /\ listErr' = TRUE
                  /\ \E m \in ErrorMessages : errs' = Append(errs, Err("list", m))
                  /\ available' = <<>>
                  /\ pc' = "decide"
                  /\ UNCHANGED <<portMappings, currentPortMappings>>
             ELSE /\ UNCHANGED errs
                  /\ portMappings' = resp.mappings
                  /\ currentPortMappings' = Candidates(resp.mappings, port)
                  /\ listErr' = FALSE
                  /\ IF Len(currentPortMappings') > 0
                     THEN /\ pc' = "probe"
                          /\ UNCHANGED available
                     ELSE /\ pc' = "decide"
                          /\ available' = <<>>
    /\ UNCHANGED <<cmdVars, name, shown, calls, login, onlineSIMs, pickVars, sim, ip,
                   portMapping, createReqs, diag, exitCode, termVars, sessVars,
                   bgVars>>

\* part_004:873-890: probe the outbound IP, keep the mappings that allow it
BrokerProbe ==
    /\ pc = "probe"
    /\ \E resp \in ProbeResponses :
          /\ ops' = Append(ops, "probe")
          /\ ip' = GetIP(resp)
          /\ available' = FilterByProbe(currentPortMappings, ip')
          /\ pc' = "decide"
    /\ UNCHANGED <<flagVars, calls, login, onlineSIMs, pickVars, sim, listErr, portMappings,
                   currentPortMappings, portMapping, createReqs, diag, exitCode,
                   termVars, sessVars, bgVars>>

\* connect.go:43, part_001:102
NeedsCreate(err, avail) == err \/ Len(avail) = 0

\* CreateBody sending the duration in minutes
CreateBody_Minutes(s, p, d) ==
    [duration |-> d, tlsRequired |-> FALSE, simId |-> s.id, port |-> p]

\* part_004:896-913: the body of POST port_mappings
CreateBody(s, p, d) ==
    [duration |-> d * 60, tlsRequired |-> FALSE, simId |-> s.id, port |-> p]

\* the mapping the directory creates for a request: a fresh endpoint (0)
Created(req) == PortMapping(0, req.port, <<MatchAll>>)

\* BrokerCreate with interactive ending on a failed listing
BrokerCreate_InteractiveStops ==
    /\ pc = "decide"
    /\ NeedsCreate(listErr, available)
    /\ IF cmd = "interactive" /\ listErr
       THEN /\ Fatal(<<D("error", "FindAvailablePortMappingsForSIM")>>)
            /\ shown' = Append(shown, errs[Len(errs)])
            /\ UNCHANGED <<ops, createReqs, portMapping, errs>>
       ELSE /\ ops' = Append(ops, "create")
            /\ createReqs' = Append(createReqs, CreateBody(sim[1], port, duration))
            /\ \E ok \in BOOLEAN :
                  IF ok
                  THEN /\ portMapping' =
                             <<Created(CreateBody(sim[1], port, duration))>>
                       /\ pc' = "connect"
                       /\ UNCHANGED <<diag, exitCode, errVars>>
                  ELSE /\ \E m \in ErrorMessages :
                             /\ errs' = Append(errs, Err("create", m))
                             /\ shown' = Append(shown, Err("create", m))
                       /\ Fatal(<<D("error", "CreatePortMappingForSIM")>>)
                       /\ UNCHANGED portMapping
    /\ UNCHANGED <<cmdVars, name, calls, login, onlineSIMs, pickVars, sim, listErr,
                   portMappings, currentPortMappings, ip, available, termVars,
                   sessVars, bgVars>>

\* connect.go:44-49, part_001:103-108: create a mapping, exit when that fails
BrokerCreate ==
    /\ pc = "decide"
    /\ NeedsCreate(listErr, available)
    /\ ops' = Append(ops, "create")
    /\ createReqs' = Append(createReqs, CreateBody(sim[1], port, duration))
    /\ \E ok \in BOOLEAN :
          IF ok
          THEN /\ portMapping' = <<Created(CreateBody(sim[1], port, duration))>>
               /\ pc' = "connect"
               /\ UNCHANGED <<diag, exitCode, errVars>>
          ELSE /\ \E m \in ErrorMessages :
                     /\ errs' = Append(errs, Err("create", m))
                     /\ shown' = Append(shown, Err("create", m))
               /\ Fatal(<<D("error", "CreatePortMappingForSIM")>>)
               /\ UNCHANGED portMapping
    /\ UNCHANGED <<cmdVars, name, calls, login, onlineSIMs, pickVars, sim, listErr,
                   portMappings, currentPortMappings, ip, available, termVars,
                   sessVars, bgVars>>

\* connect.go:50-53: reuse the first available mapping
BrokerReuse ==
    /\ pc = "decide"
    /\ ~NeedsCreate(listErr, available)
    /\ portMapping' = <<available[1]>>
    /\ pc' = "connect"
    /\ UNCHANGED <<flagVars, calls, login, onlineSIMs, pickVars, sim, listErr, portMappings,
                   currentPortMappings, ip, available, createReqs, ops, diag,
                   exitCode, termVars, sessVars, bgVars>>

----------------------------------------------------------------------------
(* Session Bridge: part_004:935-1029 SoracomClient.Connect *)

\* RunDeferred with the terminal restore not deferred
RunDeferred_CloseOnly(opened, raw) ==
    IF opened THEN <<"close">> ELSE <<>>

\* RunDeferred running the deferred calls in the order of their registration
RunDeferred_RegistrationOrder(opened, raw) ==
    (IF opened THEN <<"close">> ELSE <<>>) \o (IF raw THEN <<"restore">> ELSE <<>>)

\* the deferred calls Connect has registered, in the order they run:
\* Restore (part_004:964-969) was deferred after Close (951-956), so it
\* runs first
RunDeferred(opened, raw) ==
    (IF raw THEN <<"restore">> ELSE <<>>) \o (IF opened THEN <<"close">> ELSE <<>>)

Count(s, x) == Cardinality({i \in 1..Len(s) : s[i] = x})

\* one call made by Connect and whether it returned without an error
Call(step, ok) == [step |-> step, ok |-> ok]

\* return e from Connect: the deferred calls run, then the caller resumes
ConnReturn(e) ==
    LET d == RunDeferred(sessionOpen, termRaw) IN
    /\ result' = e
    /\ pc' = "returned"
    /\ teardown' = teardown \o d
    /\ restoreCount' = restoreCount + Count(d, "restore")
    /\ closeCount' = closeCount + Count(d, "close")
    /\ termRaw' = IF Count(d, "restore") > 0 THEN FALSE ELSE termRaw
    /\ sessionOpen' = IF Count(d, "close") > 0 THEN FALSE ELSE sessionOpen

\* newSSHClientConfig (part_004:1091-1124): what can happen for an identity
AuthOutcomes(id) ==
    IF id = "" THEN {"ok", "prompt failed"}
    ELSE {"ok", "stat failed", "read failed", "parse failed"}

\* part_004:936-939
ConnAuth ==
    /\ pc = "connect"
    /\ ops' = Append(ops, "connect")
    /\ \E o \in AuthOutcomes(identity) :
          /\ calls' = Append(calls, Call("auth", o = "ok"))
          /\ IF o = "ok"
             THEN /\ pc' = "dial"
                  /\ UNCHANGED <<termVars, sessionOpen, result>>
             ELSE /\ ConnReturn("err")
                  /\ UNCHANGED rawCount
    /\ UNCHANGED <<flagVars, login, onlineSIMs, pickVars, sim, brokerVars, diag,
                   exitCode, started, remote, ptyDims, bgVars>>

\* part_004:941-944
ConnDial ==
    /\ pc = "dial"
    /\ \E ok \in BOOLEAN :
          /\ calls' = Append(calls, Call("dial", ok))
          /\ IF ok
             THEN /\ pc' = "newsession"
                  /\ UNCHANGED <<termVars, sessionOpen, result>>
             ELSE /\ ConnReturn("err")
                  /\ UNCHANGED rawCount
    /\ UNCHANGED <<flagVars, login, onlineSIMs, pickVars, sim, brokerVars, ops, diag,
                   exitCode, started, remote, ptyDims, bgVars>>

\* part_004:946-956
ConnNewSession ==
    /\ pc = "newsession"
    /\ \E ok \in BOOLEAN :
          /\ calls' = Append(calls, Call("newsession", ok))
          /\ IF ok
             THEN /\ sessionOpen' = TRUE
                  /\ pc' = "makeraw"
                  /\ UNCHANGED <<termVars, result>>
             ELSE /\ ConnReturn("err")
                  /\ UNCHANGED rawCount
    /\ UNCHANGED <<flagVars, login, onlineSIMs, pickVars, sim, brokerVars, ops, diag,
                   exitCode, started, remote, ptyDims, bgVars>>

\* part_004:958-969
ConnMakeRaw ==
    /\ pc = "makeraw"
    /\ \E ok \in BOOLEAN :
          /\ calls' = Append(calls, Call("makeraw", ok))
          /\ IF ok
             THEN /\ termRaw' = TRUE
                  /\ rawCount' = rawCount + 1
                  /\ pc' = "getsize"
                  /\ UNCHANGED <<restoreCount, closeCount, teardown, sessionOpen,
                                 result>>
             ELSE /\ ConnReturn("err")
                  /\ UNCHANGED rawCount
    /\ UNCHANGED <<flagVars, login, onlineSIMs, pickVars, sim, brokerVars, ops, diag,
                   exitCode, started, remote, ptyDims, bgVars>>

\* what terminal.GetSize hands back together with an error
FailSize == <<0, 0>>

\* ConnGetSize giving up when the size cannot be queried
ConnGetSize_Fatal ==
    /\ pc = "getsize"
    /\ \E d \in Dims, ok \in BOOLEAN :
          /\ termSize' = d
          /\ calls' = Append(calls, Call("getsize", ok))
          /\ IF ok
             THEN /\ wh' = d
                  /\ pc' = "reqpty"
                  /\ UNCHANGED <<diag, termVars, sessionOpen, result>>
             ELSE /\ wh' = FailSize
                  /\ diag' = Append(diag, D("warning", "GetSize"))
                  /\ ConnReturn("err")
                  /\ UNCHANGED rawCount
    /\ UNCHANGED <<flagVars, login, onlineSIMs, pickVars, sim, brokerVars, ops,
                   exitCode, started, remote, ptyDims, copy, sigRegistered, sigch,
                   hpc, nResizes, nNotified, nDelivered, lastQuery, sent>>

\* part_004:971-976: the terminal has some size d when it is queried; a
\* failed query is reported and w, h are set to the defaults
ConnGetSize ==
    /\ pc = "getsize"
    /\ \E d \in Dims, ok \in BOOLEAN :
          /\ termSize' = d
          /\ calls' = Append(calls, Call("getsize", ok))
          /\ IF ok
             THEN /\ wh' = d
                  /\ UNCHANGED diag
             ELSE /\ wh' = <<DefaultCols, DefaultRows>>
                  /\ diag' = Append(diag, D("warning", "GetSize"))
    /\ pc' = "reqpty"
    /\ UNCHANGED <<flagVars, login, onlineSIMs, pickVars, sim, brokerVars, ops,
                   exitCode, termVars, sessVars, copy, sigRegistered, sigch, hpc,
                   nResizes, nNotified, nDelivered, lastQuery, sent>>

\* ConnRequestPty with a failure that is only printed, as Shell's is
ConnRequestPty_Continue ==
    /\ pc = "reqpty"
    /\ ptyDims' = <<wh[2], wh[1]>>
    /\ \E ok \in BOOLEAN :
          /\ calls' = Append(calls, Call("reqpty", ok))
          /\ diag' = IF ok THEN diag ELSE Append(diag, D("error", "RequestPty"))
    /\ pc' = "stdinpipe"
    /\ UNCHANGED <<flagVars, login, onlineSIMs, pickVars, sim, brokerVars, ops,
                   exitCode, termVars, sessionOpen, result, started, remote, bgVars>>

\* part_004:978-985: RequestPty("xterm", h, w, modes)
ConnRequestPty ==
    /\ pc = "reqpty"
    /\ ptyDims' = <<wh[2], wh[1]>>
    /\ \E ok \in BOOLEAN :
          /\ calls' = Append(calls, Call("reqpty", ok))
          /\ IF ok
             THEN /\ pc' = "stdinpipe"
                  /\ UNCHANGED <<termVars, sessionOpen, result>>
             ELSE /\ ConnReturn("err")
                  /\ UNCHANGED rawCount
    /\ UNCHANGED <<flagVars, login, onlineSIMs, pickVars, sim, brokerVars, ops, diag,
                   exitCode, started, remote, bgVars>>

\* session.StdinPipe / StdoutPipe / StderrPipe, then go dup(...)
ConnPipe(at, t, next) ==
    /\ pc = at
    /\ \E ok \in BOOLEAN :
          /\ calls' = Append(calls, Call(at, ok))
          /\ IF ok
             THEN /\ copy' = [copy EXCEPT ![t] = "running"]
                  /\ pc' = next
                  /\ UNCHANGED <<termVars, sessionOpen, result>>
             ELSE /\ ConnReturn("err")
                  /\ UNCHANGED <<rawCount, copy>>
    /\ UNCHANGED <<flagVars, login, onlineSIMs, pickVars, sim, brokerVars, ops, diag,
                   exitCode, started, remote, ptyDims, termSize, wh,
                   sigRegistered, sigch, hpc, nResizes, nNotified, nDelivered, lastQuery,
                   sent>>

\* part_004:987-991
ConnStdinPipe == ConnPipe("stdinpipe", "stdin", "stdoutpipe")

\* part_004:993-997
ConnStdoutPipe == ConnPipe("stdoutpipe", "stdout", "stderrpipe")

\* part_004:999-1003
ConnStderrPipe == ConnPipe("stderrpipe", "stderr", "shell")

\* ConnShell returning the error of session.Shell, as the other steps do
ConnShell_ReturnOnError ==
    /\ pc = "shell"
    /\ \E ok \in BOOLEAN :
          /\ calls' = Append(calls, Call("shell", ok))
          /\ IF ok
             THEN /\ started' = TRUE
                  /\ remote' = "running"
                  /\ pc' = "notify"
                  /\ UNCHANGED <<diag, termVars, sessionOpen, result>>
             ELSE /\ diag' = Append(diag, D("error", "Shell"))
                  /\ ConnReturn("err")
                  /\ UNCHANGED <<started, remote, rawCount>>
    /\ UNCHANGED <<flagVars, login, onlineSIMs, pickVars, sim, brokerVars, ops,
                   exitCode, ptyDims, bgVars>>

\* part_004:1005-1008: an error of session.Shell is printed, Connect goes on
ConnShell ==
    /\ pc = "shell"
    /\ \E ok \in BOOLEAN :
          /\ calls' = Append(calls, Call("shell", ok))
          /\ IF ok
             THEN /\ started' = TRUE
                  /\ remote' = "running"
                  /\ UNCHANGED diag
             ELSE /\ diag' = Append(diag, D("error", "Shell"))
                  /\ UNCHANGED <<started, remote>>
    /\ pc' = "notify"
    /\ UNCHANGED <<flagVars, login, onlineSIMs, pickVars, sim, brokerVars, ops,
                   exitCode, termVars, sessionOpen, ptyDims, result, bgVars>>

\* part_004:1010-1025: make the channel, register it, start the goroutine
ConnNotify ==
    /\ pc = "notify"
    /\ sigRegistered' = TRUE
    /\ hpc' = "recv"
    /\ calls' = Append(calls, Call("notify", TRUE))
    /\ pc' = "wait"
    /\ UNCHANGED <<flagVars, login, onlineSIMs, pickVars, sim, brokerVars, ops, diag,
                   exitCode, termVars, sessVars, termSize, wh, copy, sigch,
                   nResizes, nNotified, nDelivered, lastQuery, sent>>

\* what session.Wait returns: at once when the shell was never started,
\* else once the remote command has ended ("blocked" = not yet)
WaitResult(isStarted, rem) ==
    IF ~isStarted THEN "err"
    ELSE IF rem = "exit0" THEN "nil"
    ELSE IF rem = "exitFail" THEN "err"
    ELSE "blocked"

\* ConnWait not waiting for the remote command: it returns nil at once
ConnWait_NoWait ==
    /\ pc = "wait"
    /\ calls' = Append(calls, Call("wait", TRUE))
    /\ ConnReturn("nil")
    /\ UNCHANGED <<flagVars, login, onlineSIMs, pickVars, sim, brokerVars, ops, diag,
                   exitCode, rawCount, started, remote, ptyDims, bgVars>>

\* part_004:1027-1028
ConnWait ==
    /\ pc = "wait"
    /\ WaitResult(started, remote) # "blocked"
    /\ calls' = Append(calls, Call("wait", WaitResult(started, remote) = "nil"))
    /\ ConnReturn(WaitResult(started, remote))
    /\ UNCHANGED <<flagVars, login, onlineSIMs, pickVars, sim, brokerVars, ops, diag,
                   exitCode, rawCount, started, remote, ptyDims, bgVars>>

\* connect.go:57-61, part_001:116-120: the caller prints the error and
\* exits with 1, or returns
AfterConnect ==
    /\ pc = "returned"
    /\ IF result = "err"
       THEN Fatal(<<D("error", "Connect")>>)
       ELSE ExitOK
    /\ UNCHANGED <<flagVars, calls, login, onlineSIMs, pickVars, sim, brokerVars, ops,
                   termVars, sessVars, bgVars>>

----------------------------------------------------------------------------
(* Environment and background goroutines of the session *)

\* the remote command ends, with or without failure
RemoteExit ==
    /\ Alive
    /\ remote = "running"
    /\ \E r \in {"exit0", "exitFail"} : remote' = r
    /\ UNCHANGED <<flagVars, calls, login, pc, onlineSIMs, pickVars, sim, brokerVars, ops,
                   diag, exitCode, termVars, sessionOpen, started, ptyDims, result,
                   bgVars>>

\* CopyEnd with a copy error that is fatal to the process (log.Fatal in dup)
CopyEnd_Fatal(t) ==
    /\ Alive
    /\ copy[t] = "running"
    /\ \E how \in {"eof", "failed"} :
          /\ copy' = [copy EXCEPT ![t] = how]
          /\ IF how = "failed"
             THEN Fatal(<<D("error", t)>>)
             ELSE UNCHANGED <<pc, diag, exitCode>>
    /\ UNCHANGED <<flagVars, calls, login, onlineSIMs, pickVars, sim, brokerVars, ops,
                   termVars, sessVars, termSize, wh, sigRegistered,
                   sigch, hpc, nResizes, nNotified, nDelivered, lastQuery, sent>>

\* dup (part_004:1039-1044): io.Copy ends at end of stream ("eof") or on an
\* error, which is printed ("failed")
CopyEnd(t) ==
    /\ Alive
    /\ copy[t] = "running"
    /\ \E how \in {"eof", "failed"} : copy' = [copy EXCEPT ![t] = how]
    /\ UNCHANGED <<flagVars, calls, login, pc, onlineSIMs, pickVars, sim, brokerVars, ops,
                   diag, exitCode, termVars, sessVars, termSize, wh, sigRegistered,
                   sigch, hpc, nResizes, nNotified, nDelivered, lastQuery, sent>>

CopyStep == \E t \in CopyTasks : CopyEnd(t)

\* the signal package's delivery to a channel never blocks: a signal that
\* finds the one-slot buffer (part_004:1010) full is dropped
Deliver(buffered) == IF buffered < 1 THEN buffered + 1 ELSE buffered

\* the user resizes the terminal; the kernel raises SIGWINCH, which is
\* ignored unless signal.Notify has registered ch
Resize ==
    /\ Alive
    /\ ptyDims # <<>>
    /\ nResizes < MaxResizes
    /\ \E d \in Dims \ {termSize} : termSize' = d
    /\ nResizes' = nResizes + 1
    /\ IF sigRegistered
       THEN /\ nNotified' = nNotified + 1
            /\ sigch' = Deliver(sigch)
       ELSE UNCHANGED <<nNotified, sigch>>
    /\ UNCHANGED <<flagVars, calls, login, pc, onlineSIMs, pickVars, sim, brokerVars, ops,
                   diag, exitCode, termVars, sessVars, wh, copy, sigRegistered, hpc,
                   nDelivered, lastQuery, sent>>

\* part_004:1014: s := <-ch
HandlerRecv ==
    /\ Alive
    /\ hpc = "recv"
    /\ sigch > 0
    /\ sigch' = sigch - 1
    /\ nDelivered' = nDelivered + 1
    /\ hpc' = "query"
    /\ UNCHANGED <<flagVars, calls, login, pc, onlineSIMs, pickVars, sim, brokerVars, ops,
                   diag, exitCode, termVars, sessVars, termSize, wh, copy,
                   sigRegistered, nResizes, nNotified, lastQuery, sent>>

\* HandlerQuery declaring new w, h (:=) instead of assigning Connect's
HandlerQuery_Shadowed ==
    /\ Alive
    /\ hpc = "query"
    /\ \E d \in {termSize, FailSize} : lastQuery' = d
    /\ hpc' = "send"
    /\ UNCHANGED <<flagVars, calls, login, pc, onlineSIMs, pickVars, sim, brokerVars, ops,
                   diag, exitCode, termVars, sessVars, termSize, wh, copy,
                   sigRegistered, sigch, nResizes, nNotified, nDelivered, sent>>

\* part_004:1017-1018: w, h, _ = terminal.GetSize(fd)
HandlerQuery ==
    /\ Alive
    /\ hpc = "query"
    /\ \E d \in {termSize, FailSize} :
          /\ lastQuery' = d
          /\ wh' = d
    /\ hpc' = "send"
    /\ UNCHANGED <<flagVars, calls, login, pc, onlineSIMs, pickVars, sim, brokerVars, ops,
                   diag, exitCode, termVars, sessVars, termSize, copy,
                   sigRegistered, sigch, nResizes, nNotified, nDelivered, sent>>

\* the request WindowChange(h, w) puts on the command channel
WindowChange(d) == <<d[2], d[1]>>

\* part_004:1019-1022: an error of WindowChange is printed
HandlerSend ==
    /\ Alive
    /\ hpc = "send"
    /\ sent' = Append(sent, WindowChange(wh))
    /\ hpc' = "recv"
    /\ UNCHANGED <<flagVars, calls, login, pc, onlineSIMs, pickVars, sim, brokerVars, ops,
                   diag, exitCode, termVars, sessVars, termSize, wh, copy,
                   sigRegistered, sigch, nResizes, nNotified, nDelivered, lastQuery>>

\* a signal other than SIGWINCH (SIGTERM, SIGHUP, ...) keeps its default
\* disposition: the process ends at once and no deferred call runs
Kill ==
    /\ Alive
    /\ pc' = "killed"
    /\ exitCode' = 2
    /\ UNCHANGED <<flagVars, calls, login, onlineSIMs, pickVars, sim, brokerVars, ops, diag,
                   termVars, sessVars, bgVars>>

----------------------------------------------------------------------------
(* The command layer.  Connect is one step here: it is called with the     *)
(* chosen mapping and returns nil or an error; SessionSpec models it step  *)
(* by step.                                                                *)

\* connect.go:57, part_001:116: err = client.Connect(login, identity, portMapping)
CallConnect ==
    /\ pc = "connect"
    /\ ops' = Append(ops, "connect")
    /\ \E e \in {"nil", "err"} : result' = e
    /\ pc' = "returned"
    /\ UNCHANGED <<flagVars, calls, login, onlineSIMs, pickVars, sim, brokerVars, diag,
                   exitCode, termVars, sessionOpen, started, remote, ptyDims,
                   bgVars>>

Next ==
    \/ ConnectSearch
    \/ InteractiveListPage
    \/ PickerKey
    \/ PickerFail
    \/ BrokerList
    \/ BrokerProbe
    \/ BrokerCreate
    \/ BrokerReuse
    \/ CallConnect
    \/ AfterConnect

Spec == Init /\ [][Next]_vars

----------------------------------------------------------------------------
(* The session: Connect from its call to the end of the process, with the  *)
(* goroutines it starts, the remote side, the terminal and signals.        *)

SessionNext ==
    \/ ConnAuth
    \/ ConnDial
    \/ ConnNewSession
    \/ ConnMakeRaw
    \/ ConnGetSize
    \/ ConnRequestPty
    \/ ConnStdinPipe
    \/ ConnStdoutPipe
    \/ ConnStderrPipe
    \/ ConnShell
    \/ ConnNotify
    \/ ConnWait
    \/ AfterConnect
    \/ RemoteExit
    \/ CopyStep
    \/ Resize
    \/ HandlerRecv
    \/ HandlerQuery
    \/ HandlerSend
    \/ Kill

\* Connect is about to be called: for each command line, the run in which
\* sim1 was resolved, it had no mapping and one was created
SessionInit ==
    /\ \E inv \in Invocations :
          LET s1 == SIM("sim1", TRUE, "plan01s", "s1.fast")
              body == CreateBody(s1, inv.port, inv.duration)
              c == inv.cmd = "connect"
          IN  /\ cmd = inv.cmd
              /\ arg = inv.arg
              /\ login = IF c THEN parseArg(inv.arg).login ELSE inv.login
              /\ name = IF c THEN parseArg(inv.arg).name ELSE <<>>
              /\ identity = inv.identity
              /\ port = inv.port
              /\ duration = inv.duration
              /\ onlineSIMs = IF c THEN <<s1>> ELSE <<>>
              /\ sims = IF c THEN <<>> ELSE <<s1>>
              /\ items = IF c THEN <<>> ELSE <<s1>>
              /\ cursor = IF c THEN 0 ELSE 1
              /\ choice = IF c THEN <<>> ELSE <<s1>>
              /\ sim = <<s1>>
              /\ ops = <<IF c THEN "search" ELSE "listOnline", "list", "create">>
              /\ createReqs = <<body>>
              /\ portMapping = <<Created(body)>>
    /\ pc = "connect"
    /\ lastEvaluatedKey = <<>>
    /\ pages = <<>>
    /\ filtering = FALSE
    /\ listErr = FALSE
    /\ portMappings = <<>>
    /\ currentPortMappings = <<>>
    /\ ip = <<>>
    /\ available = <<>>
    /\ diag = <<>>
    /\ exitCode = 0 - 1
    /\ termRaw = FALSE
    /\ rawCount = 0
    /\ restoreCount = 0
    /\ closeCount = 0
    /\ teardown = <<>>
    /\ sessionOpen = FALSE
    /\ started = FALSE
    /\ remote = "none"
    /\ termSize = <<DefaultCols, DefaultRows>>
    /\ wh = <<0, 0>>
    /\ ptyDims = <<>>
    /\ copy = [t \in CopyTasks |-> "idle"]
    /\ sigRegistered = FALSE
    /\ sigch = 0
    /\ hpc = "none"
    /\ nResizes = 0
    /\ nNotified = 0
    /\ nDelivered = 0
    /\ lastQuery = <<>>
    /\ sent = <<>>
    /\ calls = <<>>
    /\ args = <<>>
    /\ cmdline = [coverage |-> <<>>, profile |-> "none"]
    /\ coverageType = <<>>
    /\ profileName = DefaultProfile
    /\ profiles = ReadyProfiles
    /\ client = ReadyClient
    /\ fetched = <<>>
    /\ out = <<>>
    /\ errs = <<>>
    /\ shown = <<>>
    /\ result = "none"

SessionSpec == SessionInit /\ [][SessionNext]_vars

----------------------------------------------------------------------------
(* Properties *)

InOps(x) == \E i \in 1..Len(ops) : ops[i] = x

\* the command has chosen between reusing and creating
PastDecision == portMapping # <<>> \/ InOps("create")

\* a mapping the mapper can be reached through: it forwards to port p and
\* one of its source ranges parses and contains address a
Eligible(pm, p, a) ==
    /\ pm.port = p
    /\ \E i \in 1..Len(pm.ipRanges) :
          /\ ~ParseCIDR(pm.ipRanges[i]).err
          /\ NetContains(ParseCIDR(pm.ipRanges[i]), a)

\* the listing and the probe succeeded and found an eligible mapping
EligibleFound ==
    /\ ~listErr
    /\ ip # <<>>
    /\ ~ip.err
    /\ \E i \in 1..Len(portMappings) : Eligible(portMappings[i], port, ip.ip)

\* C1: connect goes on to the mapping broker only when the name search
\* returned exactly one online device.  With none (or a failed search) it
\* exits with 1, with several it prints each match and exits with 1, and in
\* both cases nothing but the search was requested: no listing, no probe,
\* no create, no session.
C1_OnlyOneOnlineMatchProceeds ==
    (cmd = "connect" /\ pc # "start") =>
        /\ Len(onlineSIMs) = 1 => sim = <<onlineSIMs[1]>>
        /\ Len(onlineSIMs) # 1 =>
              /\ pc = "exit"
              /\ exitCode = 1
              /\ ops = <<"search">>
              /\ sim = <<>>
              /\ portMapping = <<>>
        /\ Len(onlineSIMs) > 1 =>
              \A i \in 1..Len(onlineSIMs) :
                  D("match", onlineSIMs[i].id) \in Range(diag)
        /\ ops # <<"search">> => Len(onlineSIMs) = 1

\* two online devices matched: both were printed and the command has failed
C1_Witness ==
    /\ cmd = "connect"
    /\ Len(onlineSIMs) = 2
    /\ pc = "exit"
    /\ exitCode = 1
    /\ ops = <<"search">>
    /\ D("match", onlineSIMs[2].id) \in Range(diag)

\* C2: when the listing and the probe succeed and some mapping is eligible,
\* the mapping taken for reuse is the first one, in the order of the listing,
\* whose port is the requested one and one of whose ranges contains the
\* probed address.
C2_ReusesFirstEligible ==
    (~listErr /\ ip # <<>> /\ ~ip.err /\ available # <<>>) =>
        \E i \in 1..Len(portMappings) :
            /\ Eligible(portMappings[i], port, ip.ip)
            /\ \A j \in 1..(i - 1) : ~Eligible(portMappings[j], port, ip.ip)
            /\ available[1] = portMappings[i]
            /\ portMapping # <<>> =>
                  /\ portMapping = <<portMappings[i]>>
                  /\ createReqs = <<>>

\* the second listed mapping is reused: the first one has the port but no
\* range containing the probed address
C2_Witness ==
    /\ pc = "connect"
    /\ createReqs = <<>>
    /\ Len(portMappings) = 2
    /\ portMappings[1].port = port
    /\ ~Eligible(portMappings[1], port, ip.ip)
    /\ portMapping = <<portMappings[2]>>

\* C3: a create request is issued exactly when no eligible mapping was
\* found, at most once per run, and its body carries the device id, the
\* requested port, the duration in seconds (minutes * 60) and TLS off.
C3_CreateIffNoneEligible ==
    /\ Len(createReqs) <= 1
    /\ Count(ops, "create") = Len(createReqs)
    /\ ~PastDecision => createReqs = <<>>
    /\ PastDecision => (Len(createReqs) = 1 <=> ~EligibleFound)
    /\ createReqs # <<>> =>
          createReqs[1] = [duration |-> duration * 60, tlsRequired |-> FALSE,
                           simId |-> sim[1].id, port |-> port]

\* mappings for the port exist and the probe succeeded, but no range contains
\* the address: one create request for 60 seconds per minute was sent
C3_Witness ==
    /\ Len(createReqs) = 1
    /\ currentPortMappings # <<>>
    /\ ip # <<>>
    /\ ~ip.err
    /\ ip.ip # NilIP
    /\ createReqs[1].duration = 60 * duration
    /\ createReqs[1].port = port
    /\ pc = "connect"

\* C4: when candidates exist and the probe fails, the failure does not end
\* the command: nothing is taken for reuse, a create request is issued and
\* the session is opened through the created mapping.
C4_ProbeErrorLeadsToCreate ==
    (ip # <<>> /\ ip.err) =>
        /\ currentPortMappings # <<>>
        /\ available = <<>>
        /\ pc = "decide" => NeedsCreate(listErr, available)
        /\ pc = "exit" => InOps("create")
        /\ PastDecision => Len(createReqs) = 1
        /\ InOps("connect") => portMapping = <<Created(createReqs[1])>>

\* the probe failed with candidates listed and the session was opened through
\* the mapping the create request returned
C4_Witness ==
    /\ ip # <<>>
    /\ ip.err
    /\ currentPortMappings # <<>>
    /\ InOps("connect")
    /\ portMapping = <<Created(createReqs[1])>>

\* C5: a transport error while listing or creating mappings is fatal: the
\* command reports it, exits non-zero and takes no later step; in particular
\* no create request follows a failed listing.
C5_ListOrCreateErrorIsFatal ==
    /\ listErr => (~InOps("create") /\ ~InOps("connect"))
    /\ D("error", "CreatePortMappingForSIM") \in Range(diag) =>
          (pc = "exit" /\ exitCode = 1 /\ ~InOps("connect"))

\* C6: the terminal's original mode is restored on every path on which the
\* process ends after raw mode was entered, a signal ending the process
\* included.
C6_RestoredOnEveryExit ==
    (rawCount > 0 /\ pc \in {"returned", "exit", "killed"}) => ~termRaw

\* C7: once raw mode was entered the terminal is restored exactly once, by
\* the time Connect returns, also when starting the shell failed; it is not
\* restored before Connect returns.
C7_RestoredOnceBeforeReturn ==
    /\ rawCount <= 1
    /\ restoreCount <= rawCount
    /\ pc \in {"returned", "exit"} =>
          /\ restoreCount = rawCount
          /\ Count(teardown, "restore") = rawCount
          /\ ~termRaw
    /\ (rawCount = 1 /\ result = "none") => (termRaw /\ restoreCount = 0)

\* starting the shell failed after raw mode was entered; Connect has
\* returned and the terminal was restored once
C7_Witness ==
    /\ pc = "returned"
    /\ rawCount = 1
    /\ restoreCount = 1
    /\ ~termRaw
    /\ ~started
    /\ D("error", "Shell") \in Range(diag)

\* C8: with the shell started, Connect does not return before the remote
\* command has ended and returns an error exactly when it ended in failure;
\* the command prints that error and exits non-zero, else exits with 0.
C8_ConnectWaitsForRemote ==
    started =>
        /\ pc \in {"returned", "exit"} =>
              /\ remote \in {"exit0", "exitFail"}
              /\ result = "err" <=> remote = "exitFail"
              /\ result = "nil" <=> remote = "exit0"
        /\ remote = "running" => result = "none"
        /\ pc = "exit" =>
              /\ exitCode = 1 <=> result = "err"
              /\ exitCode = 0 <=> result = "nil"
              /\ result = "err" => D("error", "Connect") \in Range(diag)

\* the remote command failed, Connect returned the error and the command
\* printed it and exited with 1
C8_Witness ==
    /\ started
    /\ pc = "exit"
    /\ remote = "exitFail"
    /\ result = "err"
    /\ exitCode = 1
    /\ D("error", "Connect") \in Range(diag)

\* C9: the three copy tasks are independent: when one ends, by end of
\* stream or by an error, the other two are left as they are and neither
\* Connect nor the session nor the process is ended by it.
C9_CopyTasksIndependent ==
    [][\A t \in CopyTasks :
          (copy[t] = "running" /\ copy'[t] \in {"eof", "failed"}) =>
              /\ \A u \in CopyTasks \ {t} : copy'[u] = copy[u]
              /\ pc' = pc
              /\ result' = result
              /\ sessionOpen' = sessionOpen
              /\ exitCode' = exitCode]_vars

\* the stdin copy has failed while the session goes on: the other two copy
\* and Connect waits for the remote command
C9_Witness ==
    /\ copy["stdin"] = "failed"
    /\ copy["stdout"] = "running"
    /\ copy["stderr"] = "running"
    /\ pc = "wait"
    /\ remote = "running"
    /\ sessionOpen

SizeQueryFailed == D("warning", "GetSize") \in Range(diag)

\* C11: when the initial terminal-size query fails, the pseudo-terminal is
\* requested with 80 columns and 24 rows and Connect goes on to the request
\* instead of returning; when the query succeeds the pseudo-terminal is
\* requested with the queried dimensions.
C11_DefaultSizeOnFailedQuery ==
    /\ []((ptyDims # <<>> /\ SizeQueryFailed)
             => ptyDims = <<DefaultRows, DefaultCols>>)
    /\ [][((pc = "getsize" /\ pc' # "killed") =>
              (/\ pc' = "reqpty"
               /\ result' = "none"
               /\ wh' = IF SizeQueryFailed'
                        THEN <<DefaultCols, DefaultRows>>
                        ELSE termSize'))
          /\ ((pc = "reqpty" /\ pc' # "killed") =>
                 (ptyDims' = IF SizeQueryFailed
                             THEN <<DefaultRows, DefaultCols>>
                             ELSE <<termSize[2], termSize[1]>>))]_vars

\* the size query failed, 24 rows by 80 columns were requested and the
\* shell runs with Connect waiting for it
C11_Witness ==
    /\ SizeQueryFailed
    /\ ptyDims = <<DefaultRows, DefaultCols>>
    /\ started
    /\ pc = "wait"
    /\ remote = "running"

\* the order in which Connect makes its calls (part_004:936-1027)
ConnectSteps ==
    <<"auth", "dial", "newsession", "makeraw", "getsize", "reqpty", "stdinpipe",
      "stdoutpipe", "stderrpipe", "shell", "notify", "wait">>

Made(step) == \E i \in 1..Len(calls) : calls[i].step = step

Failed(step) == \E i \in 1..Len(calls) : calls[i].step = step /\ ~calls[i].ok

\* C12: a failure of building the authentication, of the dial, of opening
\* the command channel or of the PTY request is the last call Connect makes:
\* Connect returns an error, with no dial after an authentication failure,
\* no raw mode after a dial or channel-open failure and no copy task or
\* shell start after a PTY-request failure.
C12_FailureEndsConnect ==
    /\ \A i \in 1..Len(calls) : calls[i].step = ConnectSteps[i]
    /\ \A step \in {"auth", "dial", "newsession", "reqpty"} :
          Failed(step) =>
              /\ calls[Len(calls)].step = step
              /\ result = "err"
              /\ pc \in {"returned", "exit", "killed"}
    /\ Failed("auth") => ~Made("dial")
    /\ (Failed("auth") \/ Failed("dial") \/ Failed("newsession")) =>
          /\ ~Made("makeraw")
          /\ rawCount = 0
          /\ ~termRaw
          /\ closeCount = 0
    /\ Failed("reqpty") =>
          /\ \A t \in CopyTasks : copy[t] = "idle"
          /\ ~Made("stdinpipe")
          /\ ~Made("shell")
          /\ ~started

\* the PTY request failed: no copy task and no shell were started, the
\* terminal was restored and the command has exited with 1
C12_Witness ==
    /\ Failed("reqpty")
    /\ pc = "exit"
    /\ exitCode = 1
    /\ restoreCount = 1
    /\ closeCount = 1
    /\ \A t \in CopyTasks : copy[t] = "idle"

----------------------------------------------------------------------------
(* The Address Resolver on every argument of up to MaxArgLen characters:   *)
(* connect's first step, which parses the argument and searches.           *)

ArgChars == {"@", "u", "d"}

Quiescent ==
    /\ onlineSIMs = <<>>
    /\ sims = <<>>
    /\ lastEvaluatedKey = <<>>
    /\ pages = <<>>
    /\ items = <<>>
    /\ cursor = 0
    /\ filtering = FALSE
    /\ choice = <<>>
    /\ sim = <<>>
    /\ listErr = FALSE
    /\ portMappings = <<>>
    /\ currentPortMappings = <<>>
    /\ ip = <<>>
    /\ available = <<>>
    /\ portMapping = <<>>
    /\ ops = <<>>
    /\ createReqs = <<>>
    /\ diag = <<>>
    /\ exitCode = 0 - 1
    /\ termRaw = FALSE
    /\ rawCount = 0
    /\ restoreCount = 0
    /\ closeCount = 0
    /\ teardown = <<>>
    /\ sessionOpen = FALSE
    /\ started = FALSE
    /\ remote = "none"
    /\ termSize = <<DefaultCols, DefaultRows>>
    /\ wh = <<0, 0>>
    /\ ptyDims = <<>>
    /\ copy = [t \in CopyTasks |-> "idle"]
    /\ sigRegistered = FALSE
    /\ sigch = 0
    /\ hpc = "none"
    /\ nResizes = 0
    /\ nNotified = 0
    /\ nDelivered = 0
    /\ lastQuery = <<>>
    /\ sent = <<>>
    /\ calls = <<>>
    /\ fetched = <<>>
    /\ out = <<>>
    /\ errs = <<>>
    /\ shown = <<>>
    /\ result = "none"

ParseInit ==
    /\ cmd = "connect"
    /\ arg \in SeqsUpTo(ArgChars, MaxArgLen)
    /\ login = <<>>
    /\ name = <<>>
    /\ identity = ""
    /\ port = DefaultPort
    /\ duration = DefaultDuration
    /\ args = <<>>
    /\ cmdline = [coverage |-> <<>>, profile |-> "none"]
    /\ coverageType = <<>>
    /\ profileName = DefaultProfile
    /\ profiles = ReadyProfiles
    /\ client = ReadyClient
    /\ pc = "start"
    /\ Quiescent

ParseNext == ConnectSearch

ParseSpec == ParseInit /\ [][ParseNext]_vars

\* C13: parseArg is total.  Without '@' the login is "pi" and the name is
\* the whole argument; with '@' the name is what follows the first '@',
\* later '@' included, and the login is what precedes it, or "pi" when
\* nothing precedes it.  The empty argument gives ("pi", "").
C13_ParseArgSplitsAtFirstAt ==
    pc # "start" =>
        /\ (\A i \in 1..Len(arg) : arg[i] # "@") =>
              (login = <<"p", "i">> /\ name = arg)
        /\ \A i \in 1..Len(arg) :
              (arg[i] = "@" /\ \A j \in 1..(i - 1) : arg[j] # "@") =>
                  /\ name = [k \in 1..(Len(arg) - i) |-> arg[i + k]]
                  /\ login = IF i = 1 THEN <<"p", "i">>
                                      ELSE [k \in 1..(i - 1) |-> arg[k]]
        /\ arg = <<>> => (login = <<"p", "i">> /\ name = <<>>)

\* an argument with two '@' was parsed: the login is what precedes the
\* first, the name keeps the second
C13_Witness ==
    /\ pc # "start"
    /\ arg = <<"u", "@", "@", "d">>
    /\ login = <<"u">>
    /\ name = <<"@", "d">>

\* a mapping with a range that does not parse and a range that parses and
\* contains address a
MixedRanges(pm, a) ==
    /\ \E i \in 1..Len(pm.ipRanges) : ParseCIDR(pm.ipRanges[i]).err
    /\ \E i \in 1..Len(pm.ipRanges) :
          /\ ~ParseCIDR(pm.ipRanges[i]).err
          /\ NetContains(ParseCIDR(pm.ipRanges[i]), a)

\* C14: a source range that does not parse is skipped.  A candidate with one
\* such range and one range containing the probed address, in either order,
\* is among the available mappings, and it is the one reused when no earlier
\* candidate is available.
C14_UnparsableRangeIsSkipped ==
    (ip # <<>> /\ ~ip.err) =>
        \A i \in 1..Len(currentPortMappings) :
            MixedRanges(currentPortMappings[i], ip.ip) =>
                /\ currentPortMappings[i] \in Range(available)
                /\ (\A j \in 1..(i - 1) :
                        currentPortMappings[j] \notin Range(available)) =>
                      /\ available[1] = currentPortMappings[i]
                      /\ PastDecision =>
                            /\ portMapping = <<currentPortMappings[i]>>
                            /\ createReqs = <<>>

\* two candidates, one with the unparsable range first and one with it last,
\* are both available and the first one is reused
C14_Witness ==
    /\ pc = "connect"
    /\ ip # <<>>
    /\ ~ip.err
    /\ Len(currentPortMappings) = 2
    /\ \A i \in 1..2 : Len(currentPortMappings[i].ipRanges) = 2
    /\ ParseCIDR(currentPortMappings[1].ipRanges[1]).err
    /\ ParseCIDR(currentPortMappings[2].ipRanges[2]).err
    /\ MixedRanges(currentPortMappings[1], ip.ip)
    /\ MixedRanges(currentPortMappings[2], ip.ip)
    /\ currentPortMappings[2] \in Range(available)
    /\ portMapping = <<currentPortMappings[1]>>

\* C15: GetIP returns an address without an error only when the response
\* was read and its trimmed body is an address literal; a body that is not
\* one makes it return an error.
C15_GetIPFailsOnUnparsableBody ==
    (ip # <<>> /\ ~ip.err) => ip.ip \in IPs

----------------------------------------------------------------------------
(* The Interactive Picker over a directory of up to MaxListed online       *)
(* devices: the paged listing, the picker's keys and its failure.          *)

PickerInit ==
    /\ cmd = "interactive"
    /\ arg = <<>>
    /\ login = DefaultLogin
    /\ name = <<>>
    /\ identity = ""
    /\ port = DefaultPort
    /\ duration = DefaultDuration
    /\ args = <<>>
    /\ cmdline = [coverage |-> <<>>, profile |-> "none"]
    /\ coverageType = <<>>
    /\ profileName = DefaultProfile
    /\ profiles = ReadyProfiles
    /\ client = ReadyClient
    /\ pc = "start"
    /\ Quiescent

PickerListPage == ListPage(MaxListed - Len(sims), TRUE)

PickerNext ==
    \/ PickerListPage
    \/ PickerKey
    \/ PickerFail

PickerSpec == PickerInit /\ [][PickerNext]_vars

\* the picker was started: the listing has ended without an error
PickerStarted ==
    /\ cmd = "interactive"
    /\ pc # "start"
    /\ D("error", "FindOnlineSIMs") \notin Range(diag)

\* positions in the listing of the devices with an identifier, a
\* subscription and a speed class
CompleteAt ==
    {i \in 1..Len(sims) :
        sims[i].id # "" /\ sims[i].subscription # "" /\ sims[i].speedClass # ""}

\* C16: the picker offers exactly the listed devices that have a non-empty
\* identifier, subscription and speed class, in the order of the listing:
\* the k-th item is the k-th such device.
C16_PickerOffersCompleteDevices ==
    PickerStarted =>
        /\ Len(items) = Cardinality(CompleteAt)
        /\ \A k \in 1..Len(items) :
              \E i \in CompleteAt :
                  /\ Cardinality({j \in CompleteAt : j <= i}) = k
                  /\ items[k] = sims[i]

\* three devices were listed, the second without a subscription: the picker
\* offers the first and the third
C16_Witness ==
    /\ pc = "picker"
    /\ Len(sims) = 3
    /\ CompleteAt = {1, 3}
    /\ sims[2].subscription = ""
    /\ items = <<sims[1], sims[3]>>

\* C17: q, esc or ctrl+c ends the picker in whatever state it is, a filter
\* being typed included: no device is chosen, nothing is requested or
\* printed afterwards and the command exits with 0; an interactive run that
\* ended without a choice has requested nothing but the listing.
C17_CancelEndsWithoutAction ==
    /\ []((cmd = "interactive" /\ choice = <<>>) =>
             (sim = <<>> /\ \A i \in 1..Len(ops) : ops[i] = "listOnline"))
    /\ [][\A k \in QuitKeys :
             PickerPress(k) =>
                 /\ choice' = <<>>
                 /\ sim' = <<>>
                 /\ pc' = "exit"
                 /\ exitCode' = 0
                 /\ ops' = ops
                 /\ diag' = diag
                 /\ portMapping' = <<>>]_vars

\* the picker was cancelled while a filter was being typed over a non-empty
\* list: nothing chosen, only the listing requested, exit 0
C17_Witness ==
    /\ cmd = "interactive"
    /\ pc = "exit"
    /\ exitCode = 0
    /\ filtering
    /\ items # <<>>
    /\ choice = <<>>
    /\ sim = <<>>
    /\ ops = <<"listOnline">>

\* the requests made after the device was resolved or picked
BrokerOps == SelectSeq(ops, LAMBDA o : o \notin {"search", "listOnline"})

CreateFailed == D("error", "CreatePortMappingForSIM") \in Range(diag)

\* the requests a finished run makes for its device, given what the
\* directory and the prober answered; the sub-command plays no part in it
Pipeline ==
    <<"list">>
    \o (IF ~listErr /\ \E i \in 1..Len(portMappings) : portMappings[i].port = port
        THEN <<"probe">> ELSE <<>>)
    \o (IF EligibleFound THEN <<>> ELSE <<"create">>)
    \o (IF CreateFailed THEN <<>> ELSE <<"connect">>)

\* C18: from the resolved or picked device on, connect and interactive run
\* the same sequence: the requests made, the mapping used and the exit code
\* are the same function of the device, the flags and the answers of the
\* directory, the prober and the session, whichever sub-command runs.
C18_SamePipelineForBothCommands ==
    sim # <<>> =>
        /\ Len(BrokerOps) <= Len(Pipeline)
        /\ \A i \in 1..Len(BrokerOps) : BrokerOps[i] = Pipeline[i]
        /\ ops = (IF cmd = "connect" THEN <<"search">>
                  ELSE [i \in 1..(Len(ops) - Len(BrokerOps)) |-> "listOnline"])
                 \o BrokerOps
        /\ createReqs # <<>> =>
              createReqs = <<[duration |-> duration * 60, tlsRequired |-> FALSE,
                              simId |-> sim[1].id, port |-> port]>>
        /\ portMapping # <<>> =>
              portMapping = <<IF EligibleFound THEN available[1]
                                               ELSE Created(createReqs[1])>>
        /\ pc = "exit" =>
              /\ BrokerOps = Pipeline
              /\ exitCode = IF CreateFailed \/ result = "err" THEN 1 ELSE 0

\* an interactive run with a device picked has listed, probed, reused a
\* mapping, connected and ended with 0
C18_Witness ==
    /\ cmd = "interactive"
    /\ choice # <<>>
    /\ sim = choice
    /\ pc = "exit"
    /\ exitCode = 0
    /\ BrokerOps = <<"list", "probe", "connect">>
    /\ portMapping = <<available[1]>>

\* the devices of pages 1..n, in page order
RECURSIVE Concatenated(_)
Concatenated(n) == IF n = 0 THEN <<>> ELSE Concatenated(n - 1) \o pages[n].sims

\* C19: FindOnlineSIMs asks for the first page without a token and for each
\* further page with the token of the previous response; it goes on exactly
\* while the responses carry a token, a response without one being the last
\* page and no error; it returns the devices of all pages in page order.
C19_PagesFollowedToTheEnd ==
    /\ pages # <<>> => pages[1].key = <<>>
    /\ \A i \in 1..(Len(pages) - 1) :
          /\ pages[i].nextKey # <<>>
          /\ pages[i + 1].key = pages[i].nextKey
    /\ sims = Concatenated(Len(pages))
    /\ (pages # <<>> /\ pages[Len(pages)].nextKey = <<>>) => PickerStarted
    /\ PickerStarted => pages[Len(pages)].nextKey = <<>>

\* two pages were fetched, the second with the token of the first and
\* without a token of its own: the picker runs over the devices of both
C19_Witness ==
    /\ pc = "picker"
    /\ Len(pages) = 2
    /\ pages[1].sims # <<>>
    /\ pages[2].sims # <<>>
    /\ pages[2].key = pages[1].nextKey
    /\ sims = pages[1].sims \o pages[2].sims

----------------------------------------------------------------------------
(* list: unnamed/part_002:72-125 *)

\* a mapping as list sees it: Endpoint and Destination.SimID
OwnedMapping(endpoint, simId) == [endpoint |-> endpoint, simId |-> simId]

\* a printed line: a device, "#n:", a mapping or "no port mapping for"
Line(kind, simId, n) == [kind |-> kind, sim |-> simId, n |-> n]

\* the status the shell sees for os.Exit(v)
ExitStatus(v) == v % 256

\* the older list command (cmd/list.go:13): exactly one argument
ArgsAccepted_ExactlyOne(n) == n = 1

\* part_002:77: cobra.RangeArgs(0, 1)
ArgsAccepted(n) == n \in 0..1

\* cobra checks the arguments before Run; when Execute returns an error
\* run returns -1 (cmd/nssh/main.go:13-15)
ListCheckArgs ==
    /\ pc = "start"
    /\ cmd = "list"
    /\ IF ArgsAccepted(Len(args))
       THEN /\ pc' = IF Len(args) = 0 THEN "listall" ELSE "listsearch"
            /\ UNCHANGED <<diag, exitCode>>
       ELSE /\ diag' = Append(diag, D("error", "Execute"))
            /\ exitCode' = ExitStatus(0 - 1)
            /\ pc' = "exit"
    /\ UNCHANGED <<rootVars, cmd, arg, name, identity, port, duration, listVars, errVars, calls, login,
                   onlineSIMs, pickVars, sim, brokerVars, ops, termVars, sessVars,
                   bgVars>>

\* responses of GET port_mappings: the owners are sim1 and sim2
AllMappingsResponses ==
    {[err |-> TRUE, mappings |-> <<>>]}
    \cup {[err |-> FALSE,
           mappings |-> [i \in 1..Len(o) |-> OwnedMapping(i, o[i])]] :
          o \in SeqsUpTo({"sim1", "sim2"}, MaxMappings)}

\* part_002:80-84, part_004:824-837
ListAllMappings ==
    /\ pc = "listall"
    /\ \E resp \in AllMappingsResponses :
          /\ ops' = Append(ops, "listAll")
          /\ IF resp.err
             THEN /\ Fatal(<<D("error", "ListPortMappings")>>)
                  /\ UNCHANGED portMappings
             ELSE /\ portMappings' = resp.mappings
                  /\ pc' = "resolve"
                  /\ UNCHANGED <<diag, exitCode>>
    /\ UNCHANGED <<rootVars, cmd, arg, name, identity, port, duration, listVars, errVars, calls, login,
                   onlineSIMs, pickVars, sim, listErr, currentPortMappings, ip,
                   available, portMapping, createReqs, termVars, sessVars, bgVars>>

\* GetSIM (part_004:803-821): a transport error, no such device, or the
\* device with that identifier
GetSIM(id) ==
    {[err |-> TRUE, sim |-> <<>>]}
    \cup {[err |-> FALSE, sim |-> <<s>>] : s \in {u \in SIMUniverse : u.id = id}}

\* part_002:86-95: one iteration of the loop over the mappings, or its end
ListResolve ==
    /\ pc = "resolve"
    /\ IF Len(fetched) = Len(portMappings)
       THEN /\ ExitOK
            /\ UNCHANGED <<ops, fetched, out>>
       ELSE LET pm == portMappings[Len(fetched) + 1] IN
            \E resp \in GetSIM(pm.simId) :
               /\ ops' = Append(ops, "getSIM")
               /\ IF resp.err
                  THEN /\ Fatal(<<D("error", "GetSIM")>>)
                       /\ UNCHANGED <<fetched, out>>
                  ELSE /\ fetched' = Append(fetched,
                                            [sim |-> resp.sim, mappings |-> <<pm>>])
                       /\ out' = out \o <<Line("sim", resp.sim[1].id, 0),
                                          Line("mapping", pm.simId, pm.endpoint)>>
                       /\ UNCHANGED <<pc, diag, exitCode>>
    /\ UNCHANGED <<rootVars, cmd, arg, name, identity, port, duration, args, errVars, calls, login,
                   onlineSIMs, pickVars, sim, brokerVars, termVars, sessVars,
                   bgVars>>

\* part_002:98-102, part_004:732-745
ListSearch ==
    /\ pc = "listsearch"
    /\ \E resp \in SearchResponses :
          /\ ops' = Append(ops, "search")
          /\ IF resp.err
             THEN /\ Fatal(<<D("error", "FindSIMsByName")>>)
                  /\ UNCHANGED sims
             ELSE /\ sims' = resp.sims
                  /\ pc' = "persim"
                  /\ UNCHANGED <<diag, exitCode>>
    /\ UNCHANGED <<rootVars, cmd, arg, name, identity, port, duration, listVars, errVars, calls, login,
                   onlineSIMs, lastEvaluatedKey, pages, items, cursor, filtering,
                   choice, sim, brokerVars, termVars, sessVars, bgVars>>

\* responses of GET port_mappings/sims/<id>
OwnedResponses(id) ==
    {[err |-> TRUE, mappings |-> <<>>]}
    \cup {[err |-> FALSE, mappings |-> [i \in 1..n |-> OwnedMapping(i, id)]] :
          n \in 0..MaxMappings}

\* part_002:111-119: what is printed for a device and its mappings
RECURSIVE Numbered(_, _)
Numbered(ms, n) ==
    IF n = 0 THEN <<>>
    ELSE Numbered(ms, n - 1)
         \o <<Line("index", ms[n].simId, n), Line("mapping", ms[n].simId, ms[n].endpoint)>>

Block(s, ms) ==
    IF Len(ms) > 0
    THEN <<Line("sim", s.id, 0)>> \o Numbered(ms, Len(ms))
    ELSE <<Line("none", s.id, 0)>>

\* part_002:104-120: one iteration of the loop over the devices, or its end
ListForSIM ==
    /\ pc = "persim"
    /\ IF Len(fetched) = Len(sims)
       THEN /\ ExitOK
            /\ UNCHANGED <<ops, fetched, out>>
       ELSE LET s == sims[Len(fetched) + 1] IN
            \E resp \in OwnedResponses(s.id) :
               /\ ops' = Append(ops, "list")
               /\ IF resp.err
                  THEN /\ Fatal(<<D("error", "FindPortMappingsForSIM")>>)
                       /\ UNCHANGED <<fetched, out>>
                  ELSE /\ fetched' = Append(fetched,
                                            [sim |-> <<s>>, mappings |-> resp.mappings])
                       /\ out' = out \o Block(s, resp.mappings)
                       /\ UNCHANGED <<pc, diag, exitCode>>
    /\ UNCHANGED <<rootVars, cmd, arg, name, identity, port, duration, args, errVars, calls, login,
                   onlineSIMs, pickVars, sim, brokerVars, termVars, sessVars,
                   bgVars>>

ListInit ==
    /\ cmd = "list"
    /\ args \in SeqsUpTo({<<"d">>}, MaxArgs)
    /\ cmdline = [coverage |-> <<>>, profile |-> "none"]
    /\ coverageType = <<>>
    /\ profileName = DefaultProfile
    /\ profiles = ReadyProfiles
    /\ client = ReadyClient
    /\ arg = <<>>
    /\ login = <<>>
    /\ name = <<>>
    /\ identity = ""
    /\ port = DefaultPort
    /\ duration = DefaultDuration
    /\ pc = "start"
    /\ Quiescent

ListNext ==
    \/ ListCheckArgs
    \/ ListAllMappings
    \/ ListResolve
    \/ ListSearch
    \/ ListForSIM

ListSpec == ListInit /\ [][ListNext]_vars

\* the lines of one kind that were printed
LinesOf(kind) == {k \in 1..Len(out) : out[k].kind = kind}

\* the mappings fetched in the first n iterations
RECURSIVE FetchedMappings(_)
FetchedMappings(n) ==
    IF n = 0 THEN 0 ELSE FetchedMappings(n - 1) + Len(fetched[n].mappings)

\* cobra refused the arguments
UsageError == \E k \in 1..Len(diag) : diag[k] = D("error", "Execute")

ListedAll == Len(args) = 0 /\ pc = "exit" /\ exitCode = 0
ListedByName == Len(args) = 1 /\ pc = "exit" /\ exitCode = 0

----------------------------------------------------------------------------
(* Exit status *)

\* a directory call of the run failed: the name search or the all-online
\* listing brought nothing back, the mapping listing returned an error, or
\* the create request brought no mapping
DirectoryFailed ==
    \/ Count(ops, "listOnline") > Len(pages)
    \/ listErr
    \/ InOps("create") /\ portMapping = <<>>

\* the conditions the command has to end on with a non-zero status
FatalCondition ==
    \/ cmd = "connect" /\ InOps("search") /\ Len(onlineSIMs) # 1
    \/ DirectoryFailed
    \/ D("could not start program", "") \in Range(diag)
    \/ result = "err"

\* C21: the exit status is 0 when the command completes without a fatal
\* condition, and non-zero, after a diagnostic was printed, for every fatal
\* condition: ambiguous name, no online match, a failed directory call, a
\* failed Connect (authentication, network, remote exit).
C21_FatalConditionExitsNonZero ==
    pc = "exit" =>
        /\ exitCode = 0 <=> ~FatalCondition
        /\ exitCode # 0 => diag # <<>>

\* C22: whenever a directory call of connect (name search, mapping listing,
\* mapping creation) fails with a status outside 2xx or a transport error,
\* the command ends with a non-zero status and has printed that error's own
\* message.
C22_DirectoryErrorShownVerbatim ==
    (cmd = "connect" /\ errs # <<>>) =>
        /\ pc = "exit"
        /\ exitCode # 0
        /\ \A i \in 1..Len(errs) : errs[i] \in Range(shown)

----------------------------------------------------------------------------
(* Start of the process: package init, cobra's Execute, initConfig *)

CoverageFlags == {<<>>, <<"g">>, <<"j", "p">>, <<"g", "l", "o">>, <<"x">>}

ProfileFlags == {"none", DefaultProfile, "default"}

ProfileFiles ==
    {[exists |-> FALSE, coverageType |-> <<>>]}
    \cup {[exists |-> TRUE, coverageType |-> ct] : ct \in {<<"j", "p">>, <<"g">>, <<"x">>}}

\* part_001:155-167: init registers the flags, which sets the variables to
\* their defaults, and registers initConfig with cobra.OnInitialize
RootPackageInit ==
    /\ pc = "init"
    /\ coverageType' = <<>>
    /\ profileName' = DefaultProfile
    /\ pc' = "execute"
    /\ UNCHANGED <<cmdline, profiles, client, cmd, arg, name, identity, port,
                   duration, listVars, errVars, calls, login, onlineSIMs, pickVars,
                   sim, brokerVars, ops, diag, exitCode, termVars, sessVars, bgVars>>

\* RootCmd.Execute parses the command line into the flag variables
ParseFlags ==
    /\ pc = "execute"
    /\ coverageType' = cmdline.coverage
    /\ profileName' = IF cmdline.profile = "none" THEN profileName
                      ELSE cmdline.profile
    /\ pc' = "initialize"
    /\ UNCHANGED <<cmdline, profiles, client, cmd, arg, name, identity, port,
                   duration, listVars, errVars, calls, login, onlineSIMs, pickVars,
                   sim, brokerVars, ops, diag, exitCode, termVars, sessVars, bgVars>>

\* the client constructed in init itself (cmd/root.go:29), where the flag
\* variables still hold their defaults
FlagsAtConstruction_Defaults == <<<<>>, DefaultProfile>>

\* part_001:171: initConfig reads the flag variables when cobra calls it
FlagsAtConstruction == <<coverageType, profileName>>

\* part_001:169-176, part_004:674-729: cobra runs initConfig before the
\* sub-command; a failure of NewSoracomClient is printed and ends the process
InitConfig ==
    /\ pc = "initialize"
    /\ LET r == NewSoracomClient(FlagsAtConstruction[1], FlagsAtConstruction[2],
                                 profiles)
       IN  IF r.err
           THEN /\ Fatal(<<D("failed to create a client", "")>>)
                /\ UNCHANGED <<client, ops>>
           ELSE /\ ops' = Append(ops, "auth")
                /\ \E a \in Answers :
                      IF doRequest(a).err
                      THEN /\ Fatal(<<D("failed to create a client", "")>>)
                           /\ UNCHANGED client
                      ELSE /\ client' = <<[endpoint |-> r.endpoint,
                                           profile |-> r.profile]>>
                           /\ pc' = "start"
                           /\ UNCHANGED <<diag, exitCode>>
    /\ UNCHANGED <<cmdline, coverageType, profileName, profiles, cmd, arg, name,
                   identity, port, duration, listVars, errVars, calls, login,
                   onlineSIMs, pickVars, sim, brokerVars, termVars, sessVars, bgVars>>

\* part_003:16-18: version prints the tag and the commit
Version ==
    /\ pc = "start"
    /\ cmd = "version"
    /\ out' = Append(out, Line("version", "", 0))
    /\ ExitOK
    /\ UNCHANGED <<rootVars, cmd, arg, name, identity, port, duration, args, fetched,
                   errVars, calls, login, onlineSIMs, pickVars, sim, brokerVars, ops,
                   termVars, sessVars, bgVars>>

RootInit ==
    /\ cmdline \in [coverage : CoverageFlags, profile : ProfileFlags]
    /\ profiles \in [{DefaultProfile, "default"} -> ProfileFiles]
    /\ coverageType = <<>>
    /\ profileName = ""
    /\ client = <<>>
    /\ cmd = "version"
    /\ arg = <<>>
    /\ login = <<>>
    /\ name = <<>>
    /\ identity = ""
    /\ port = DefaultPort
    /\ duration = DefaultDuration
    /\ args = <<>>
    /\ pc = "init"
    /\ Quiescent

RootNext ==
    \/ RootPackageInit
    \/ ParseFlags
    \/ InitConfig
    \/ Version

RootSpec == RootInit /\ [][RootNext]_vars

\* the selector and the profile the command line asks for
Requested ==
    [selector |-> Selector(cmdline.coverage,
                           profiles[IF cmdline.profile = "none" THEN DefaultProfile
                                    ELSE cmdline.profile].coverageType),
     profile |-> IF cmdline.profile = "none" THEN DefaultProfile
                 ELSE cmdline.profile]

----------------------------------------------------------------------------
(* Termination of the background tasks *)

\* the steps of the main goroutine
MainStep ==
    \/ ConnAuth \/ ConnDial \/ ConnNewSession \/ ConnMakeRaw \/ ConnGetSize
    \/ ConnRequestPty \/ ConnStdinPipe \/ ConnStdoutPipe \/ ConnStderrPipe
    \/ ConnShell \/ ConnNotify \/ ConnWait \/ AfterConnect

\* the steps of the resize goroutine
HandlerStep == HandlerRecv \/ HandlerQuery \/ HandlerSend

\* the session under a scheduler that lets every goroutine that can run,
\* run, and a remote side that ends its command
FairSessionSpec ==
    /\ SessionSpec
    /\ WF_vars(MainStep)
    /\ WF_vars(CopyStep)
    /\ WF_vars(HandlerStep)
    /\ WF_vars(RemoteExit)

\* the positions of the loop of the resize goroutine (part_004:1013-1024);
\* the loop has no other
HandlerLoop == {"recv", "query", "send"}

\* no goroutine started by Connect is running any more
TasksEnded ==
    /\ hpc \notin HandlerLoop
    /\ \A t \in CopyTasks : copy[t] # "running"

\* C24: once the remote shell has exited and Connect has torn the session
\* down, the three copy tasks and the resize task eventually end by
\* themselves (a process ended by a signal set aside).
C24_TasksEndAfterTeardown ==
    (remote \in {"exit0", "exitFail"} /\ result # "none")
        ~> (TasksEnded \/ pc = "killed")

\* C25: the terminal is switched to raw mode exactly once and before any
\* copy or resize task is started, and it is restored exactly once and only
\* after all of those tasks have finished.
C25_RawBeforeTasksRestoreAfter ==
    /\ rawCount <= 1
    /\ restoreCount <= 1
    /\ (hpc # "none" \/ \E t \in CopyTasks : copy[t] # "idle") => rawCount = 1
    /\ restoreCount > 0 => TasksEnded

----------------------------------------------------------------------------
(* The probe *)

\* a listed mapping forwards to the requested port
HasCandidate == \E i \in 1..Len(portMappings) : portMappings[i].port = port

\* the broker has listed and is past the probe, if there was one
ProbeSettled == InOps("list") /\ pc \notin {"probe"}

\* C26: in a run of the Mapping Broker the probe is issued at most once,
\* only right after a successful listing and only when a listed mapping has
\* the requested port; without such a mapping no probe is issued and the
\* create request follows the listing directly.
C26_ProbeOnlyWithCandidates ==
    /\ Count(ops, "probe") <= 1
    /\ \A i \in 1..Len(ops) :
          ops[i] = "probe" => (i > 1 /\ ops[i - 1] = "list" /\ ~listErr /\ HasCandidate)
    /\ (ProbeSettled /\ ~listErr /\ HasCandidate) => InOps("probe")
    /\ (ProbeSettled /\ ~HasCandidate) =>
          /\ ~InOps("probe")
          /\ ip = <<>>
          /\ pc # "decide" => InOps("create")
          /\ \A i \in 1..Len(ops) :
                (ops[i] = "list" /\ i < Len(ops)) => ops[i + 1] = "create"

\* a mapping was listed, but for another port: no probe, a create request
\* right after the listing
C26_Witness ==
    /\ Len(portMappings) = 1
    /\ portMappings[1].port # port
    /\ ~InOps("probe")
    /\ BrokerOps = <<"list", "create", "connect">>
    /\ pc = "exit"

----------------------------------------------------------------------------
(* Resizes *)

\* the session is open, Connect is in session.Wait and the resize goroutine
\* has nothing left to do: it waits on an empty channel
ResizesSettled == pc = "wait" /\ hpc = "recv" /\ sigch = 0

\* C27: the remote pseudo-terminal ends up with the local dimensions: when
\* the terminal was resized after the initial size query and every
\* notification has been handled, the last resize request sent carries the
\* terminal's current dimensions.
C27_LastRequestHasFinalSize ==
    (ResizesSettled /\ nResizes > 0) =>
        /\ sent # <<>>
        /\ sent[Len(sent)] = WindowChange(termSize)

----------------------------------------------------------------------------
(* Teardown *)

\* session.NewSession returned a session
ChannelOpened == \E i \in 1..Len(calls) : calls[i] = Call("newsession", TRUE)

\* C28: when Connect returns after the command channel was opened, the
\* channel is closed exactly once, and the terminal restore, when raw mode
\* was entered, comes before the close; when it returns before the channel
\* was opened nothing is closed or restored and the terminal mode was never
\* changed.  Nothing is closed or restored before Connect returns.
C28_CloseOnceRestoreFirst ==
    /\ result = "none" => teardown = <<>>
    /\ (result # "none" /\ ChannelOpened) =>
          /\ closeCount = 1
          /\ ~sessionOpen
          /\ teardown = IF rawCount > 0 THEN <<"restore", "close">> ELSE <<"close">>
    /\ (result # "none" /\ ~ChannelOpened) =>
          /\ teardown = <<>>
          /\ closeCount = 0
          /\ restoreCount = 0
          /\ rawCount = 0
          /\ ~termRaw
          /\ \E i \in 1..Len(calls) :
                /\ calls[i].step \in {"auth", "dial", "newsession"}
                /\ ~calls[i].ok

\* the PTY request failed in raw mode: restore, then close
C28_Witness ==
    /\ result = "err"
    /\ calls[Len(calls)] = Call("reqpty", FALSE)
    /\ rawCount = 1
    /\ teardown = <<"restore", "close">>
    /\ closeCount = 1

\* C29: when session.Shell reports an error Connect does not return there:
\* the error is printed, the resize task is registered and started,
\* session.Wait is called, and what Connect returns in the end is an error,
\* so the command exits with a non-zero status.
C29_FailedShellStillWaitsAndFails ==
    Failed("shell") =>
        /\ D("error", "Shell") \in Range(diag)
        /\ ~started
        /\ result # "nil"
        /\ \A i \in 1..Len(calls) :
              calls[i].step = "shell" =>
                 /\ i < Len(calls) => calls[i + 1] = Call("notify", TRUE)
                 /\ i + 1 < Len(calls) => calls[i + 2] = Call("wait", FALSE)
        /\ result # "none" =>
              /\ calls[Len(calls)] = Call("wait", FALSE)
              /\ sigRegistered
              /\ hpc # "none"
        /\ pc = "exit" => exitCode = 1

\* the shell did not start, the resize task was started all the same, Wait
\* failed and the command has exited with 1
C29_Witness ==
    /\ Failed("shell")
    /\ hpc = "recv"
    /\ Made("wait")
    /\ result = "err"
    /\ pc = "exit"
    /\ exitCode = 1

\* C30: every resize request sent on the command channel carries dimensions
\* that a successful size query returned; after a failed query no request
\* with the dimensions of the failure is sent.
C30_RequestsCarryQueriedSize ==
    /\ \A i \in 1..Len(sent) : sent[i] \in {WindowChange(d) : d \in Dims}
    /\ (hpc = "recv" /\ lastQuery = FailSize) =>
          (sent = <<>> \/ sent[Len(sent)] # WindowChange(FailSize))

====
